---- MODULE Spec2Model ----
(***************************************************************************)
(* Classification-and-routing engine of the voice agent backend:           *)
(*   - the rule-based classifier TaskRouter.classify_request,              *)
(*   - the router TaskRouter.handle_task (asyncio.wait_for + handlers),    *)
(*   - the e-mail confirmation flow of entrypoint.message_handler,         *)
(*   - the real-time cascade real_time_search / fallback_search,           *)
(*   - the routers of tasks.py (analyze_prompt_and_route_task) and of      *)
(*     run_voice_assistant.py (TaskHandler.handle_task), the classifier    *)
(*     of works.py,                                                        *)
(*   - the time tier get_current_time and its TTLCache (SpecTime),         *)
(*   - concurrent invocations of message_handler in several                *)
(*     conversations (SpecConv),                                           *)
(*   - the voice sessions of dummy/Audio.py and their flag (SpecVoice),    *)
(*   - the two-provider chat bot of stream/llm.py (SpecChat),              *)
(*   - the conversation loop of stream/Ai.py (SpecLoop),                   *)
(*   - the interactive mail composer of sendEmail.py (SpecMail),           *)
(*   - TodoManager.create_todo of todo.py (SpecTodo).                      *)
(* An utterance is a sequence of words of a fixed vocabulary; substring    *)
(* and regular-expression tests of the code are computed on that sequence  *)
(* through per-word tables.                                                *)
(***************************************************************************)
EXTENDS Naturals, Integers, Sequences, FiniteSets, TLC

\* ------------------------------------------------------------------------
\* Bounds of the model
\* ------------------------------------------------------------------------

\* Config.TASK_TIMEOUT in clock ticks (the Config class is not part of the
\* sources; any positive value gives the same control flow).
TASK_TIMEOUT == 2

\* The clock stops this many ticks after the timeout has elapsed.
MaxOverrun == 2

MaxElapsed == TASK_TIMEOUT + MaxOverrun

\* ------------------------------------------------------------------------
\* Words and texts
\* ------------------------------------------------------------------------

Absent == "<absent>"

Vocab ==
  { "confirm", "Confirm", "cancel", "edit", "credit", "yes",
    "send", "mail", "email", "to", "bob@x.io",
    "weather", "forecast", "in", "tokyo", "Tokyo",
    "web", "search", "for", "cats",
    "scrape", "http://x.io",
    "add", "todo", "milk",
    "current", "information", "on", "stocks",
    "hello" }

\* str.lower() on one word
Lower(w) ==
  CASE w = "Confirm" -> "confirm"
    [] w = "Tokyo"   -> "tokyo"
    [] OTHER         -> w

\* text.lower()
LowerText(ws) == [i \in 1..Len(ws) |-> Lower(ws[i])]

\* The signal words and single-word keywords that occur as a substring of
\* the (lower-cased) word w.
Substrings(w) ==
  CASE w = "confirm" -> {"confirm"}
    [] w = "cancel"  -> {"cancel"}
    [] w = "edit"    -> {"edit"}
    [] w = "credit"  -> {"edit"}
    [] w = "email"   -> {"email"}
    [] w = "weather" -> {"weather"}
    [] w = "forecast" -> {"forecast"}
    [] w = "search"  -> {"search"}
    [] w = "web"     -> {"web"}
    [] w = "scrape"  -> {"scrape"}
    [] w = "todo"    -> {"todo"}
    [] w = "current" -> {"current"}
    [] OTHER         -> {}

\* `kw in text` for a keyword: a keyword without a space lies inside one
\* word, a keyword "a b" ends one word and starts the next.
TwoWordKeywords == {<<"send", "mail">>, <<"find", "information">>, <<"analyze", "url">>}

HasKeyword(ws, kw) == \E i \in 1..Len(ws) : kw \in Substrings(ws[i])

HasTwoWordKeyword(ws, pair) ==
  \E i \in 1..(Len(ws) - 1) : ws[i] = pair[1] /\ ws[i + 1] = pair[2]

\* Longest prefix of the word made of \w characters ("" when there is none)
WPrefix(w) ==
  CASE w = "bob@x.io"    -> "bob"
    [] w = "http://x.io" -> "http"
    [] OTHER             -> w

\* The match of \w+@\w+\.\w+ at the start of the word ("" when none)
AddrMatch(w) == IF w = "bob@x.io" THEN "bob@x.io" ELSE ""

\* The match of https?://\S+ inside the word ("" when none)
UrlMatch(w) == IF w = "http://x.io" THEN "http://x.io" ELSE ""

\* Greedy match of [\w\s]+ that starts at word i: whole words as long as they
\* are made of \w characters, then the \w prefix of the first one that is not.
RECURSIVE CaptureFrom(_, _)
CaptureFrom(ws, i) ==
  IF i > Len(ws) THEN ""
  ELSE IF WPrefix(ws[i]) # ws[i] THEN WPrefix(ws[i])
  ELSE LET rest == IF i < Len(ws) /\ WPrefix(ws[i + 1]) # ""
                   THEN CaptureFrom(ws, i + 1) ELSE ""
       IN  IF rest = "" THEN ws[i] ELSE ws[i] \o " " \o rest

SetMin(S) == CHOOSE m \in S : \A n \in S : m <= n

\* The words of the vocabulary that end with the string s (s followed by a
\* space in the text)
EndsWith(w, s) == w = s

\* ------------------------------------------------------------------------
\* TaskRouter.classify_request (opencode/agent.py)
\* ------------------------------------------------------------------------

\* details: a mapping with the optional keys "query", "to", "content" and
\* "city"
Details(q, t, c) == [query |-> q, to |-> t, content |-> c, city |-> Absent]

CityDetails(c) == [query |-> Absent, to |-> Absent, content |-> Absent, city |-> c]

NoDetails == Details(Absent, Absent, Absent)

\* details.get(key, "")
Get(d, key) == IF d[key] = Absent THEN "" ELSE d[key]

\* The keyword groups, in the order of the `patterns` dict
patterns ==
  << [name |-> "WEATHER",   keywords |-> {"weather", "temperature", "forecast"}, two |-> {}],
     [name |-> "EMAIL",     keywords |-> {"email", "compose"},  two |-> {<<"send", "mail">>}],
     [name |-> "WEBSEARCH", keywords |-> {"search", "lookup"},  two |-> {<<"find", "information">>}],
     [name |-> "WEBSCRAPE", keywords |-> {"scrape", "extract"}, two |-> {<<"analyze", "url">>}],
     [name |-> "TODO",      keywords |-> {"todo", "task", "reminder"},    two |-> {}],
     [name |-> "REALTIME",  keywords |-> {"realtime", "current", "now"},  two |-> {}] >>

\* any(kw in text for kw in pattern["keywords"])
GroupMatches(ws, g) ==
  \/ \E kw \in g.keywords : HasKeyword(ws, kw)
  \/ \E p \in g.two : HasTwoWordKeyword(ws, p)

\* The positions at which the group's context expression matches, and the
\* text of group(1) for the match at position i
ContextStarts(name, ws) ==
  CASE name = "WEATHER" ->
         { i \in 1..Len(ws) : /\ i + 2 <= Len(ws)
                              /\ EndsWith(ws[i], "weather")
                              /\ ws[i + 1] \in {"in", "at", "for"}
                              /\ WPrefix(ws[i + 2]) # "" }
    [] name = "EMAIL" ->
         { i \in 1..Len(ws) : /\ i + 1 <= Len(ws)
                              /\ EndsWith(ws[i], "to")
                              /\ AddrMatch(ws[i + 1]) # "" }
    [] name = "WEBSEARCH" ->
         { i \in 1..Len(ws) : /\ i + 1 <= Len(ws)
                              /\ EndsWith(ws[i], "for")
                              /\ WPrefix(ws[i + 1]) # "" }
    [] name = "WEBSCRAPE" ->
         { i \in 1..Len(ws) : UrlMatch(ws[i]) # "" }
    [] name = "TODO" ->
         { i \in 1..Len(ws) : /\ i + 1 <= Len(ws)
                              /\ EndsWith(ws[i], "add")
                              /\ WPrefix(ws[i + 1]) # "" }
    [] name = "REALTIME" ->
         { i \in 1..Len(ws) : /\ i + 2 <= Len(ws)
                              /\ EndsWith(ws[i], "information")
                              /\ ws[i + 1] = "on"
                              /\ WPrefix(ws[i + 2]) # "" }

ContextGroup(name, ws, i) ==
  CASE name = "WEATHER"   -> CaptureFrom(ws, i + 2)
    [] name = "EMAIL"     -> AddrMatch(ws[i + 1])
    [] name = "WEBSEARCH" -> CaptureFrom(ws, i + 1)
    [] name = "WEBSCRAPE" -> UrlMatch(ws[i])
    [] name = "TODO"      -> CaptureFrom(ws, i + 1)
    [] name = "REALTIME"  -> CaptureFrom(ws, i + 2)

\* The loop `for task_name, pattern in patterns.items()` from group k on
RECURSIVE ClassifyFrom(_, _)
ClassifyFrom(ws, k) ==
  IF k > Len(patterns) THEN [type |-> "CONVERSATION", details |-> NoDetails]
  ELSE IF GroupMatches(ws, patterns[k])
       THEN LET name   == patterns[k].name
                starts == ContextStarts(name, ws)
            IN  [type    |-> name,
                 details |-> IF starts = {} THEN NoDetails
                             ELSE Details(ContextGroup(name, ws, SetMin(starts)),
                                          Absent, Absent)]
       ELSE ClassifyFrom(ws, k + 1)

\* A faulty variant of classify_request: when the pattern of the matched
\* group finds nothing, the pattern of the WEBSEARCH group is tried as well
classify_request_anyContext(text) ==
  LET ws     == LowerText(text)
      r      == ClassifyFrom(ws, 1)
      starts == ContextStarts("WEBSEARCH", ws)
  IN  IF r.type # "CONVERSATION" /\ r.details = NoDetails /\ starts # {}
      THEN [r EXCEPT !.details = Details(ContextGroup("WEBSEARCH", ws, SetMin(starts)),
                                         Absent, Absent)]
      ELSE r

\* A faulty variant of classify_request: the first group is not consulted
classify_request_skipFirst(text) == ClassifyFrom(LowerText(text), 2)

classify_request(text) == ClassifyFrom(LowerText(text), 1)

\* ------------------------------------------------------------------------
\* Values handed around by the router and the real-time subsystem
\* ------------------------------------------------------------------------

\* A returned value: a str (shape "str"), None (shape "none") or a dict
\* (shape "dict") with the keys status, source, message and data.
Value(shape, status, source, msg, data) ==
  [shape |-> shape, status |-> status, source |-> source, msg |-> msg, data |-> data]

StrResult(m) == Value("str", Absent, Absent, m, Absent)

NoneResult == Value("none", Absent, Absent, Absent, Absent)

NoResult == Value("pending", Absent, Absent, Absent, Absent)

error_response(message) == Value("dict", "error", Absent, message, Absent)

TimeoutMessage == "This request is taking longer than expected. Please try again."

SorryMessage == "Sorry, I encountered an error"

\* the return of `except asyncio.TimeoutError` and of `except Exception`
\* in TaskRouter.handle_task
OnTimeout == StrResult(TimeoutMessage)

OnException == StrResult(SorryMessage)

\* agent.context.get("pending_email")
NoPending == [subject |-> Absent, content |-> Absent, to |-> Absent]

\* A draft: the keys that message_handler reads, and the recipient that the
\* payload of a pending e-mail holds
Drafts == { [subject |-> "s0", content |-> "c0", to |-> "bob@x.io"] }

\* texts produced by agent.llm.generate, and str.strip() on them
GenTexts == {"new", " padded "}

Strip(t) == IF t = " padded " THEN "padded" ELSE t

NoGen == [content |-> Absent, subject |-> Absent]

Message(to, subject, body) == [to |-> to, subject |-> subject, body |-> body]

\* ------------------------------------------------------------------------
\* The structured-classification response analysed by real_time_search
\* ------------------------------------------------------------------------

FieldNames == {"location", "topic", "symbol"}

NonString == "<non-string>"

\* shape: "notext" (response has no text), "garbage" (not JSON), "array"
\* (JSON, not an object) or "object"; fenced: wrapped in ```json ... ```
Response(shape, type, fields, fenced) ==
  [shape |-> shape, type |-> type, fields |-> fields, fenced |-> fenced]

NoResp == Response("none", Absent, {}, FALSE)

GeminiResponses ==
  { Response(sh, Absent, {}, FALSE) : sh \in {"notext", "garbage", "array"} }
  \cup { Response("object", t, f, fc) :
           t \in {Absent, NonString, "weather", "Time", "news", "stocks", "recipe"},
           f \in SUBSET FieldNames, fc \in BOOLEAN }

\* response_text.replace("```json", "").replace("```", "").strip()
clean_response(r) == [r EXCEPT !.fenced = FALSE]

\* json.loads raises JSONDecodeError
JsonDecodeError(r) == r.shape = "garbage" \/ r.fenced

\* str.lower() on the "type" value
TypeLower(t) == IF t = "Time" THEN "time" ELSE t

required_fields(t) ==
  CASE t = "weather" -> {"location"}
    [] t = "time"    -> {"location"}
    [] t = "news"    -> {"topic"}
    [] t = "stocks"  -> {"symbol"}
    [] t = "sports"  -> {"team"}
    [] t = "flights" -> {"number"}

RequiredTypes == {"weather", "time", "news", "stocks", "sports", "flights"}

\* validate_request_info raises AttributeError: request_info is not a dict,
\* or its "type" is not a string
ValidateRaises(r) == r.shape # "object" \/ r.type = NonString

validate_request_info(r) ==
  LET req_type == IF r.type = Absent THEN "" ELSE TypeLower(r.type)
  IN  /\ req_type \in RequiredTypes
      /\ required_fields(req_type) \subseteq r.fields

\* The functions of realTimeSearch.py that the `handlers` dict of
\* real_time_search names, and those the module defines
HandlerNames ==
  { "handle_weather", "handle_time", "handle_news",
    "handle_stocks", "handle_sports", "handle_flights" }

DefinedHandlers == { "handle_weather", "handle_time", "handle_news" }

\* Evaluating the dict display raises NameError
HandlersTableRaises == HandlerNames \ DefinedHandlers # {}

\* What real_time_search does with the response of generate_content:
\* "fallback" (await fallback_search) or "error" (the outer except)
AnalyseResponse(r0) ==
  LET r == clean_response(r0)
  IN  IF r.shape = "notext" \/ JsonDecodeError(r) THEN "fallback"
      ELSE IF ValidateRaises(r) THEN "error"
      ELSE IF ~ validate_request_info(r) THEN "fallback"
      ELSE IF HandlersTableRaises THEN "error"
      ELSE "handler"

\* A faulty variant of FallbackResult: the exception of the HTTP request is
\* not caught
FallbackResult_uncaught(o) ==
  CASE o = "results" -> Value("dict", "partial", "Brave Search", Absent, "web results")
    [] o = "empty"   -> Value("dict", "partial", "Brave Search", Absent, "")
    [] o = "raise"   -> Value("raised", Absent, Absent, Absent, Absent)

\* fallback_search: the outcome of the HTTP request to its result
FallbackResult(o) ==
  CASE o = "results" -> Value("dict", "partial", "Brave Search", Absent, "web results")
    [] o = "empty"   -> Value("dict", "partial", "Brave Search", Absent, "")
    [] o = "raise"   -> error_response("Could not retrieve information")

\* TaskRouter._handle_real_time on the dict returned by real_time_search
RealTimeReply(results) ==
  IF results.data # Absent /\ results.data # ""
  THEN StrResult("Real-time info")
  ELSE StrResult("Could not retrieve real-time information.")

\* ------------------------------------------------------------------------
\* State
\* ------------------------------------------------------------------------

VARIABLES
  pending,     \* agent.context["pending_email"], NoPending when the key is absent
  pc,          \* where the operation in flight is suspended
  entry,       \* the operation in flight: message_handler, handle_task, real_time_search
  text,        \* the utterance given to message_handler
  task,        \* the (task_type, details) given to handle_task
  query,       \* the user_prompt given to real_time_search
  elapsed,     \* clock ticks since the operation in flight began
  armed,       \* asyncio.wait_for of handle_task is waiting for the handler
  ret,         \* the value returned by handle_task / real_time_search
  outcome,     \* "running", "returned" or "raised"
  sent,        \* the messages handed to send_email_via_assistant by this operation
  said,        \* the texts handed to agent.say by this operation
  classified,  \* classify_request was called by this operation
  gen,         \* the texts obtained from agent.llm.generate so far
  resp,        \* the response of gemini_model.generate_content
  fellBack,    \* fallback_search was called by this operation
  rtsRet,      \* the dict returned by real_time_search in this operation
  hfail,       \* a capability handler raised an exception in this operation
  cache,       \* CACHE of realTimeSearch.py: its entries, least recently used first
  now,         \* the clock that the cache reads
  hit,         \* get_current_time answered from the cache in this operation
  invoked,     \* the handler that the router called in this operation, "none" if none
  inThread,    \* the handler in flight awaits asyncio.to_thread: a worker thread runs
  orphan,      \* a worker thread of an operation that the timeout has ended still runs
  context,     \* per conversation, agent.context["pending_email"] of its agent
  handlings,   \* the invocations of message_handler, in the order of their arrival
  sentOk,      \* per conversation, the sends of the pending e-mail that succeeded
  listening_for_wakeword,  \* the module-level flag of dummy/Audio.py
  sessions,    \* per voice session, what its callback last heard and spoke
  pending0,    \* pending when the operation began
  bot,         \* the DualAIChatBot of stream/llm.py and its call in progress
  loop,        \* continuous_conversation_loop of stream/Ai.py
  mail,        \* a run of send_email_interactive of sendEmail.py
  manager      \* the TodoManager of todo.py and its storage file

vars == << pending, pc, entry, text, task, query, elapsed, armed, ret, outcome,
           sent, said, classified, gen, resp, fellBack, rtsRet, hfail, cache, now, hit,
           invoked, context, handlings, sentOk, listening_for_wakeword, sessions,
           inThread, orphan, pending0, bot, loop, mail, manager >>

\* The cache and its clock, which the router and message_handler do not use
timeVars == << cache, now, hit >>

\* The state of concurrent conversations and of the voice sessions, which a
\* single operation of the router does not use
sessionVars == << context, handlings, sentOk, listening_for_wakeword, sessions >>

\* The worker threads of asyncio.to_thread
threadVars == << inThread, orphan >>

\* The chat bot, the conversation loop, the interactive mail composer and
\* the todo manager, which the router and the sessions do not use
serviceVars == << bot, loop, mail, manager >>

\* The two providers of DualAIChatBot
Providers == {"openai", "gemini"}

\* The utterances offered to message_handler
Utterances ==
  { <<"confirm">>, <<"yes", "Confirm">>, <<"cancel">>, <<"edit">>, <<"credit">>,
    <<"confirm", "cancel">>, <<"confirm", "edit">>, <<"cancel", "edit">>,
    <<"hello">>, <<"yes">>,
    <<"send", "email", "to", "bob@x.io">>, <<"send", "mail">>, <<"email">>,
    <<"weather", "in", "tokyo">>, <<"weather">>, <<"weather", "in", "Tokyo">>,
    <<"forecast", "for", "tokyo">>, <<"search", "weather", "in", "tokyo">>,
    <<"search", "for", "cats">>, <<"search">>, <<"web", "search", "for", "cats">>,
    <<"scrape", "http://x.io">>, <<"scrape">>,
    <<"todo", "add", "milk">>, <<"todo">>,
    <<"current", "information", "on", "stocks">>, <<"current">> }

\* The task types and details offered to handle_task by a direct caller
TaskTypes ==
  { "WEBSEARCH", "REALTIME", "EMAIL", "TODO", "WEATHER", "WEBSCRAPE",
    "CONVERSATION", "UNKNOWN" }

DirectDetails ==
  { NoDetails, Details("cats", Absent, Absent), Details(Absent, "bob@x.io", "hi"),
    CityDetails("tokyo") }

\* The prompts offered to real_time_search by a direct caller
Queries == { "", "time in atlantis" }

NoTask == [type |-> Absent, details |-> NoDetails]

\* The conversations (one call of entrypoint each) and the voice sessions
\* (one call of listen_and_route_tasks each)
Conversations == {"a", "b"}

Sessions == {"x", "y"}

\* The number of invocations of message_handler that arrive
MaxHandlings == 3

Slots == 1..MaxHandlings

\* An invocation that has not arrived yet
FreeSlot ==
  [conv |-> "none", text |-> <<>>, branch |-> "none", pc |-> "free",
   email_data |-> NoPending, content |-> Absent, err |-> "none"]

\* The state after VoicePipelineAgent and TaskRouter are constructed.  The
\* agent's context belongs to the agent object and nothing in the sources
\* writes "pending_email", so a draft may or may not be present in it.
InitOperation ==
  /\ pending \in {NoPending} \cup Drafts
  /\ pc = "idle"
  /\ entry = "none"
  /\ text = <<>>
  /\ task = NoTask
  /\ query = ""
  /\ elapsed = 0
  /\ armed = FALSE
  /\ ret = NoResult
  /\ outcome = "returned"
  /\ sent = <<>>
  /\ said = <<>>
  /\ classified = FALSE
  /\ gen = NoGen
  /\ resp = NoResp
  /\ fellBack = FALSE
  /\ rtsRet = NoResult
  /\ hfail = FALSE
  /\ cache = <<>>
  /\ now = 0
  /\ hit = FALSE
  /\ invoked = "none"
  /\ inThread = FALSE
  /\ orphan = FALSE
  /\ pending0 = pending

\* No invocation of message_handler has arrived and no voice session has
\* heard anything; the flag of dummy/Audio.py has its initial value
InitSessions ==
  /\ handlings = [h \in Slots |-> FreeSlot]
  /\ sentOk = [c \in Conversations |-> 0]
  /\ listening_for_wakeword = TRUE
  /\ sessions = [x \in Sessions |-> [heard |-> "none", spoke |-> "none", routed |-> <<>>]]

\* The DualAIChatBot with the API keys k and the preference m, as
\* __init__ leaves it: a provider is available exactly when its key is
\* present, and no call is in progress
NewBot(k, m) ==
  [ model_preference |-> m, keys |-> k,
    openai_available |-> ("openai" \in k),
    gemini_available |-> ("gemini" \in k),
    pc |-> "idle", retries |-> 0, attempt |-> 0, depth |-> 0,
    attempts |-> [q \in Providers |-> 0],
    stale |-> FALSE, failures |-> FALSE, ret |-> "none", calls |-> 0 ]

\* No chat bot has been constructed yet; continuous_conversation_loop is
\* about to start its first transcription session with an empty collector;
\* send_email_interactive asks for the recipient; the TodoManager holds no
\* todo and so does its storage file
InitServices ==
  /\ bot = [NewBot({}, "other") EXCEPT !.pc = "new"]
  /\ loop = [ pc |-> "start", clock |-> 0, last_activity_time |-> 0,
              active_transcription |-> FALSE, transcript |-> "",
              collected |-> "", quiet |-> 0, handled |-> "", cancelled |-> FALSE ]
  /\ mail = [ pc |-> "recipient", recipient |-> <<>>, subject |-> <<>>,
              body_lines |-> <<>>, body |-> <<>>, answer |-> <<>>,
              handed |-> <<>>, attempt |-> 0 ]
  /\ manager = [ todos |-> {}, stored |-> [intact |-> TRUE, ids |-> {}],
                 status |-> "none", calls |-> 0,
                 before |-> [todos |-> {}, stored |-> [intact |-> TRUE, ids |-> {}]] ]

Init ==
  /\ InitOperation
  /\ InitSessions
  /\ InitServices
  /\ context = [c \in Conversations |-> NoPending]

\* Several conversations, each with an agent of its own whose context may
\* or may not hold a draft
InitConv ==
  /\ InitOperation
  /\ pending = NoPending
  /\ InitSessions
  /\ InitServices
  /\ context \in [Conversations -> {NoPending} \cup Drafts]

\* No operation is in flight
Idle == pc = "idle"

\* A new operation begins: the per-operation records start empty
Begin(e) ==
  /\ Idle
  /\ entry' = e
  /\ elapsed' = 0
  /\ gen' = NoGen
  /\ resp' = NoResp
  /\ fellBack' = FALSE
  /\ pending0' = pending

\* ------------------------------------------------------------------------
\* TaskRouter.handle_task and the handlers (opencode/agent.py)
\* ------------------------------------------------------------------------

\* self.task_handlers.get(task_type, self._handle_conversation)
task_handlers ==
  { "WEBSEARCH", "REALTIME", "EMAIL", "TODO", "WEATHER", "WEBSCRAPE", "CONVERSATION" }

HandlerFor(task_type) ==
  IF task_type \in task_handlers THEN task_type ELSE "CONVERSATION"

\* initialize_gemini(): a model, None, or an exception
GeminiInits == {"model", "none", "raise"}

\* real_time_search up to its first call that takes time: the next position,
\* or the dict it returns at once.  (agent.py imports the function from
\* dummy.realtimeSearch, which is not among the sources; real_time_search of
\* realTimeSearch.py stands for it.)
RtsStart(g) ==
  CASE g = "model" -> [pc |-> "rts_gemini", val |-> NoResult]
    [] g = "none"  -> [pc |-> "return", val |-> error_response("Service unavailable")]
    [] g = "raise" -> [pc |-> "return", val |-> error_response("Failed to process request")]

\* The handler coroutine up to its first await or blocking call: the next
\* position, or ("return", value) / ("raise", _) when it ends at once
HandlerStart(h, d, g) ==
  CASE h = "WEBSEARCH" ->
         IF Get(d, "query") = ""
         THEN [pc |-> "return", val |-> StrResult("Please provide a search query.")]
         ELSE [pc |-> "ws_search", val |-> NoResult]
    [] h = "EMAIL" ->
         IF Get(d, "to") = ""
         THEN [pc |-> "raise", val |-> NoResult]
         ELSE [pc |-> "em_content", val |-> NoResult]
    [] h = "WEATHER" ->
         IF Get(d, "query") = ""
         THEN [pc |-> "return", val |-> StrResult("Please specify a location for the weather.")]
         ELSE [pc |-> "we_get", val |-> NoResult]
    [] h = "WEBSCRAPE" ->
         IF Get(d, "query") = ""
         THEN [pc |-> "return", val |-> StrResult("Please provide a URL to scrape.")]
         ELSE [pc |-> "raise", val |-> NoResult]
    [] h = "REALTIME" ->
         IF Get(d, "query") = ""
         THEN [pc |-> "return",
               val |-> StrResult("Please specify what real-time information you need.")]
         ELSE LET r == RtsStart(g)
              IN  IF r.pc = "return"
                  THEN [pc |-> "return", val |-> RealTimeReply(r.val)]
                  ELSE r
    [] h = "TODO" ->
         IF Get(d, "query") = ""
         THEN [pc |-> "return", val |-> StrResult("Please specify the todo task.")]
         ELSE [pc |-> "td_construct", val |-> NoResult]
    [] h = "CONVERSATION" ->
         [pc |-> "return", val |-> NoneResult]

\* Positions at which the handler is suspended at an await, so that the
\* event loop can deliver the timeout of wait_for
AwaitPcs == {"ws_search", "em_content", "em_subject", "em_send", "we_get", "rts_fallback"}

\* Positions inside a synchronous call: the event loop does not run
BlockingPcs == {"rts_gemini", "td_construct"}

\* handle_task returns r to its caller e, which has said the texts sd so far
\* (failed: r comes from `except Exception`):
\* message_handler goes on to agent.say(response) or, when the response is
\* None, to agent.process_message(text)
RouterReturns(r, e, sd, failed) ==
  /\ ret' = r
  /\ hfail' = failed
  /\ armed' = FALSE
  /\ IF e = "message_handler"
     THEN /\ outcome' = "running"
          /\ pc' = IF r.shape = "none" THEN "mh_process" ELSE "mh_say_response"
          /\ said' = IF r.shape = "none" THEN sd ELSE Append(sd, r.msg)
     ELSE /\ pc' = "done"
          /\ outcome' = "returned"
          /\ said' = sd

\* handle_task(task_type, details) up to the first suspension of the handler
RouterStart(task_type, d, g, e) ==
  LET st == HandlerStart(HandlerFor(task_type), d, g)
      rt == HandlerFor(task_type) = "REALTIME" /\ Get(d, "query") # ""
  IN  /\ task' = [type |-> task_type, details |-> d]
      /\ invoked' = HandlerFor(task_type)
      /\ query' = IF rt THEN Get(d, "query") ELSE ""
      /\ rtsRet' = IF rt /\ RtsStart(g).pc = "return" THEN RtsStart(g).val ELSE NoResult
      /\ CASE st.pc = "return" -> RouterReturns(st.val, e, <<>>, FALSE)
           [] st.pc = "raise"  -> RouterReturns(OnException, e, <<>>, TRUE)
           [] OTHER -> /\ pc' = st.pc
                       /\ hfail' = FALSE
                       /\ armed' = TRUE
                       /\ ret' = NoResult
                       /\ outcome' = "running"
                       /\ said' = <<>>

\* A direct call of TaskRouter.handle_task
HandleTask(task_type, d, g) ==
  /\ Begin("handle_task")
  /\ RouterStart(task_type, d, g, "handle_task")
  /\ text' = <<>>
  /\ sent' = <<>>
  /\ classified' = FALSE
  /\ UNCHANGED << pending, timeVars, sessionVars, serviceVars, threadVars >>

\* ------------------------------------------------------------------------
\* entrypoint.message_handler (opencode/agent.py)
\* ------------------------------------------------------------------------

\* A faulty variant of SignalBranch: an utterance without a signal cancels
\* the pending e-mail
SignalBranch_implicitCancel(confirmation) ==
  IF HasKeyword(confirmation, "confirm") THEN "confirm"
  ELSE IF HasKeyword(confirmation, "edit") THEN "edit"
  ELSE "cancel"

\* The branch taken by `if "confirm" in confirmation: ... elif ...`
SignalBranch(confirmation) ==
  IF HasKeyword(confirmation, "confirm") THEN "confirm"
  ELSE IF HasKeyword(confirmation, "cancel") THEN "cancel"
  ELSE IF HasKeyword(confirmation, "edit") THEN "edit"
  ELSE "other"

\* The branch of message_handler for the utterance u: the confirmation
\* branches are entered only if "pending_email" in agent.context
Branch(p, u) ==
  IF p # NoPending THEN SignalBranch(LowerText(u)) ELSE "other"

\* message_handler, pending e-mail and "confirm": up to
\* await asyncio.to_thread(send_email_via_assistant, ...)
MessageHandlerConfirm(u) ==
  /\ Begin("message_handler")
  /\ invoked' = "none"
  /\ Branch(pending, u) = "confirm"
  /\ text' = u
  /\ sent' = << Message("user@example.com", pending.subject, pending.content) >>
  /\ pc' = "mh_send"
  /\ outcome' = "running"
  /\ said' = <<>>
  /\ classified' = FALSE
  /\ task' = NoTask
  /\ query' = ""
  /\ ret' = NoResult
  /\ rtsRet' = NoResult
  /\ hfail' = FALSE
  /\ UNCHANGED << pending, armed, timeVars, sessionVars, serviceVars, threadVars >>

\* message_handler, pending e-mail and "cancel": up to await agent.say(...)
MessageHandlerCancel(u) ==
  /\ Begin("message_handler")
  /\ invoked' = "none"
  /\ Branch(pending, u) = "cancel"
  /\ text' = u
  /\ sent' = <<>>
  /\ pc' = "mh_say_cancel"
  /\ outcome' = "running"
  /\ said' = << "Email cancelled." >>
  /\ classified' = FALSE
  /\ task' = NoTask
  /\ query' = ""
  /\ ret' = NoResult
  /\ rtsRet' = NoResult
  /\ hfail' = FALSE
  /\ UNCHANGED << pending, armed, timeVars, sessionVars, serviceVars, threadVars >>

\* message_handler, pending e-mail and "edit": up to the first
\* await agent.llm.generate(...)
MessageHandlerEdit(u) ==
  /\ Begin("message_handler")
  /\ invoked' = "none"
  /\ Branch(pending, u) = "edit"
  /\ text' = u
  /\ sent' = <<>>
  /\ pc' = "mh_gen_content"
  /\ outcome' = "running"
  /\ said' = <<>>
  /\ classified' = FALSE
  /\ task' = NoTask
  /\ query' = ""
  /\ ret' = NoResult
  /\ rtsRet' = NoResult
  /\ hfail' = FALSE
  /\ UNCHANGED << pending, armed, timeVars, sessionVars, serviceVars, threadVars >>

\* message_handler, normal task processing: classify_request, then
\* handle_task up to the first suspension of the handler
MessageHandlerRoute(u, g) ==
  /\ Begin("message_handler")
  /\ Branch(pending, u) = "other"
  /\ text' = u
  /\ sent' = <<>>
  /\ classified' = TRUE
  /\ LET t == classify_request(u)
     IN  RouterStart(t.type, t.details, g, "message_handler")
  /\ UNCHANGED << pending, timeVars, sessionVars, serviceVars, threadVars >>

\* What stays as it is while an operation in flight moves on
opFrame == << entry, text, task, query, elapsed, classified, invoked, pending0 >>

\* message_handler ends: it returns None or the exception e leaves it
MessageHandlerEnds(raised) ==
  /\ pc' = "done"
  /\ outcome' = IF raised THEN "raised" ELSE "returned"

\* The mail provider answers the send of the confirm branch; the status of
\* the result chooses what is said, an exception leaves message_handler
SendReturns(o) ==
  /\ pc = "mh_send"
  /\ IF o = "raise"
     THEN MessageHandlerEnds(TRUE) /\ said' = said
     ELSE /\ pc' = "mh_say_confirm"
          /\ outcome' = outcome
          /\ said' = Append(said, IF o = "success"
                                  THEN "Email sent successfully."
                                  ELSE "Failed to send email. Please try again later.")
  /\ UNCHANGED << timeVars, sessionVars, serviceVars, threadVars, opFrame, pending, armed, ret, sent, gen, resp, fellBack, rtsRet, hfail >>

SayPcs == {"mh_say_confirm", "mh_say_cancel", "mh_say_edited", "mh_say_response"}

\* agent.say returns or raises.  After it the confirm and the cancel branch
\* run `del agent.context["pending_email"]`; only the say of the normal
\* task processing is inside a try.
SayReturns(o) ==
  /\ pc \in SayPcs
  /\ pending' = IF o = "ok" /\ pc \in {"mh_say_confirm", "mh_say_cancel"}
                THEN NoPending ELSE pending
  /\ MessageHandlerEnds(o = "raise" /\ pc # "mh_say_response")
  /\ UNCHANGED << timeVars, sessionVars, serviceVars, threadVars, opFrame, armed, ret, sent, said, gen, resp, fellBack, rtsRet, hfail >>

\* A faulty variant of EditedPending: each text is stored in the place of
\* the other
EditedPending_swapped(p, content, subject) ==
  [p EXCEPT !.subject = Strip(content), !.content = Strip(subject)]

\* The edit branch stores the subject and the content, stripped, in the
\* pending e-mail p; the other keys of p stay as they are
EditedPending(p, content, subject) ==
  [p EXCEPT !.subject = Strip(subject), !.content = Strip(content)]

\* agent.llm.generate answers in the edit branch: the content first, then
\* the subject, and then both are stored in the pending e-mail
EditGenerateReturns(o, v) ==
  /\ pc \in {"mh_gen_content", "mh_gen_subject"}
  /\ IF o = "raise"
     THEN /\ MessageHandlerEnds(TRUE)
          /\ UNCHANGED << pending, gen, said >>
     ELSE IF pc = "mh_gen_content"
     THEN /\ pc' = "mh_gen_subject"
          /\ gen' = [gen EXCEPT !.content = v]
          /\ UNCHANGED << pending, outcome, said >>
     ELSE /\ pc' = "mh_say_edited"
          /\ gen' = [gen EXCEPT !.subject = v]
          /\ pending' = EditedPending(pending, gen.content, v)
          /\ said' = Append(said, "Email edited.")
          /\ UNCHANGED outcome
  /\ UNCHANGED << timeVars, sessionVars, serviceVars, threadVars, opFrame, armed, ret, sent, resp, fellBack, rtsRet, hfail >>

\* agent.process_message(text), the fallback to the LLM conversation
ProcessMessageReturns(o) ==
  /\ pc = "mh_process"
  /\ MessageHandlerEnds(o = "raise")
  /\ UNCHANGED << timeVars, sessionVars, serviceVars, threadVars, opFrame, pending, armed, ret, sent, said, gen, resp, fellBack, rtsRet, hfail >>

\* ------------------------------------------------------------------------
\* The handlers after their first suspension
\* ------------------------------------------------------------------------

\* WebScraper.web_search, awaited by _handle_web_search, reaches
\* await asyncio.to_thread(self.gemini_model.generate_content, ...) of
\* summarize_content or of _generate_overview: a worker thread runs the call
WebSearchEntersThread ==
  /\ pc = "ws_search"
  /\ ~ inThread
  /\ inThread' = TRUE
  /\ UNCHANGED << timeVars, sessionVars, serviceVars, opFrame, pending, pc, armed, ret, outcome, sent,
                  said, gen, resp, fellBack, rtsRet, hfail, orphan >>

\* _handle_web_search: WebScraper.web_search catches its own exceptions.
\* When it returns, the worker thread that it awaited has ended.
WebSearchReturns(o) ==
  /\ pc = "ws_search"
  /\ RouterReturns(IF o = "success" THEN StrResult("Search Results")
                   ELSE StrResult("No relevant results found."), entry, said, FALSE)
  /\ inThread' = FALSE
  /\ UNCHANGED << timeVars, sessionVars, serviceVars, opFrame, pending, sent, gen, resp, fellBack, rtsRet,
                  orphan >>

\* The call that a worker thread runs for an operation already ended by
\* the timeout comes to its end
WorkerEnds ==
  /\ orphan
  /\ orphan' = FALSE
  /\ UNCHANGED << timeVars, sessionVars, serviceVars, opFrame, pending, pc, armed, ret, outcome, sent,
                  said, gen, resp, fellBack, rtsRet, hfail, inThread >>

\* _generate_email_content: the body, then the subject; then _handle_email
\* hands the message to send_email_via_assistant
EmailGenerateReturns(o, v) ==
  /\ pc \in {"em_content", "em_subject"}
  /\ IF o = "raise"
     THEN /\ RouterReturns(OnException, entry, said, TRUE)
          /\ UNCHANGED << gen, sent >>
     ELSE IF pc = "em_content"
     THEN /\ pc' = "em_subject"
          /\ gen' = [gen EXCEPT !.content = v]
          /\ UNCHANGED << armed, ret, outcome, said, sent, hfail >>
     ELSE /\ pc' = "em_send"
          /\ gen' = [gen EXCEPT !.subject = v]
          /\ sent' = Append(sent, Message(Get(task.details, "to"),
                                          Strip(v), Strip(gen.content)))
          /\ UNCHANGED << armed, ret, outcome, said, hfail >>
  /\ UNCHANGED << timeVars, sessionVars, serviceVars, threadVars, opFrame, pending, resp, fellBack, rtsRet >>

EmailSendReturns(o) ==
  /\ pc = "em_send"
  /\ RouterReturns(CASE o = "success" -> StrResult("Email sent successfully!")
                     [] o = "error"   -> StrResult("Failed to send email")
                     [] o = "raise"   -> OnException, entry, said, o = "raise")
  /\ UNCHANGED << timeVars, sessionVars, serviceVars, threadVars, opFrame, pending, sent, gen, resp, fellBack, rtsRet >>

\* _handle_weather after weather_service.get_weather
WeatherReturns(o) ==
  /\ pc = "we_get"
  /\ RouterReturns(CASE o = "success" -> StrResult("Weather in")
                     [] o = "error"   -> StrResult("Could not retrieve weather information.")
                     [] o = "raise"   -> OnException, entry, said, o = "raise")
  /\ UNCHANGED << timeVars, sessionVars, serviceVars, threadVars, opFrame, pending, sent, gen, resp, fellBack, rtsRet >>

\* _handle_todo: todo.TodoManager() is constructed and then called inside
\* the argument of asyncio.to_thread; the constructor raises, or the call
\* does, because TodoManager defines no __call__
TodoReturns ==
  /\ pc = "td_construct"
  /\ RouterReturns(OnException, entry, said, TRUE)
  /\ UNCHANGED << timeVars, sessionVars, serviceVars, threadVars, opFrame, pending, sent, gen, resp, fellBack, rtsRet >>

\* ------------------------------------------------------------------------
\* real_time_search and fallback_search (realTimeSearch.py)
\* ------------------------------------------------------------------------

\* real_time_search returns the dict r: to its caller outside the agent's
\* router, or to _handle_real_time, which turns it into the reply of the
\* handler
RtsReturns(r) ==
  /\ rtsRet' = r
  /\ IF entry \in {"real_time_search", "analyze_prompt_and_route_task"}
     THEN /\ pc' = "done"
          /\ outcome' = "returned"
          /\ ret' = r
          /\ UNCHANGED << armed, said, hfail >>
     ELSE RouterReturns(RealTimeReply(r), entry, said, FALSE)

\* A direct call of real_time_search
RealTimeSearch(q, g) ==
  /\ Begin("real_time_search")
  /\ invoked' = "none"
  /\ query' = q
  /\ LET st == RtsStart(g)
     IN  /\ pc' = IF st.pc = "return" THEN "done" ELSE st.pc
         /\ outcome' = IF st.pc = "return" THEN "returned" ELSE "running"
         /\ ret' = st.val
         /\ rtsRet' = st.val
  /\ text' = <<>>
  /\ task' = NoTask
  /\ sent' = <<>>
  /\ said' = <<>>
  /\ classified' = FALSE
  /\ hfail' = FALSE
  /\ UNCHANGED << pending, armed, timeVars, sessionVars, serviceVars, threadVars >>

\* gemini_model.generate_content returns the response r or raises
GeminiReturns(o, r) ==
  /\ pc = "rts_gemini"
  /\ LET next == IF o = "raise" THEN "error" ELSE AnalyseResponse(r)
     IN  /\ resp' = IF o = "raise" THEN NoResp ELSE r
         /\ IF next = "fallback"
            THEN /\ pc' = "rts_fallback"
                 /\ fellBack' = TRUE
                 /\ UNCHANGED << armed, ret, outcome, said, rtsRet, hfail >>
            ELSE /\ RtsReturns(error_response("Failed to process request"))
                 /\ UNCHANGED fellBack
  /\ UNCHANGED << timeVars, sessionVars, serviceVars, threadVars, opFrame, pending, sent, gen >>

\* The HTTP request of fallback_search ends
FallbackReturns(o) ==
  /\ pc = "rts_fallback"
  /\ RtsReturns(FallbackResult(o))
  /\ UNCHANGED << timeVars, sessionVars, serviceVars, threadVars, opFrame, pending, sent, gen, resp, fellBack >>

\* ------------------------------------------------------------------------
\* The other routers: TaskRouter.analyze_prompt_and_route_task (tasks.py)
\* and TaskHandler.handle_task (run_voice_assistant.py)
\* ------------------------------------------------------------------------

\* The text of the words from position i on
RECURSIVE JoinFrom(_, _)
JoinFrom(ws, i) ==
  IF i > Len(ws) THEN ""
  ELSE IF i = Len(ws) THEN ws[i]
  ELSE ws[i] \o " " \o JoinFrom(ws, i + 1)

\* prompt_lower.split("weather in")[-1].strip()
CityOf(ws) ==
  LET at == { i \in 1..(Len(ws) - 1) : ws[i] = "weather" /\ ws[i + 1] = "in" }
  IN  JoinFrom(ws, (CHOOSE m \in at : \A n \in at : n <= m) + 2)

\* TaskRouter.classify_request of tasks.py
tasks_classify_request(user_prompt) ==
  LET prompt_lower == LowerText(user_prompt)
  IN  IF HasKeyword(prompt_lower, "search")
      THEN IF HasKeyword(prompt_lower, "web")
           THEN [type |-> "WEBSEARCH",
                 details |-> Details(JoinFrom(user_prompt, 1), Absent, Absent)]
           ELSE [type |-> "REALTIME", details |-> NoDetails]
      ELSE IF HasKeyword(prompt_lower, "email")
      THEN [type |-> "EMAIL", details |-> NoDetails]
      ELSE IF HasKeyword(prompt_lower, "todo")
      THEN [type |-> "TODO",
            details |-> Details(JoinFrom(user_prompt, 1), Absent, Absent)]
      ELSE IF HasKeyword(prompt_lower, "weather")
      THEN [type |-> "WEATHER",
            details |-> CityDetails(IF HasTwoWordKeyword(prompt_lower, <<"weather", "in">>)
                                    THEN CityOf(prompt_lower) ELSE "")]
      ELSE [type |-> "CONVERSATION", details |-> NoDetails]

\* The call made for the classified type raises inside the `try` of
\* analyze_prompt_and_route_task.  web_search of webScrapeAndProcess is a
\* plain function: awaiting what it returns raises TypeError.
TasksHandlerRaises(type, o) == type = "WEBSEARCH" \/ o = "raise"

\* What analyze_prompt_and_route_task returns when that call has ended
TasksRouterResult(type, o) ==
  IF TasksHandlerRaises(type, o)
  THEN Value("dict", "error", Absent, "Error processing request", Absent)
  ELSE Value("dict", "success", Absent, Absent, Absent)

\* analyze_prompt_and_route_task(user_prompt); for a REALTIME prompt it
\* returns what real_time_search(user_prompt) returns
AnalyzePromptAndRouteTask(u, g, o) ==
  LET c  == tasks_classify_request(u)
      rt == c.type = "REALTIME"
      st == RtsStart(g)
  IN  /\ Begin("analyze_prompt_and_route_task")
      /\ invoked' = c.type
      /\ text' = u
      /\ task' = c
      /\ classified' = TRUE
      /\ query' = IF rt THEN JoinFrom(u, 1) ELSE ""
      /\ IF rt
         THEN /\ o = "ok"
              /\ pc' = IF st.pc = "return" THEN "done" ELSE st.pc
              /\ outcome' = IF st.pc = "return" THEN "returned" ELSE "running"
              /\ ret' = st.val
              /\ rtsRet' = st.val
              /\ hfail' = FALSE
         ELSE /\ pc' = "done"
              /\ outcome' = "returned"
              /\ ret' = TasksRouterResult(c.type, o)
              /\ rtsRet' = NoResult
              /\ hfail' = TasksHandlerRaises(c.type, o)
      /\ sent' = <<>>
      /\ said' = <<>>
      /\ UNCHANGED << pending, armed, timeVars, sessionVars, serviceVars, threadVars >>

\* self.task_functions of TaskHandler
task_functions == { "WEBSEARCH", "REALTIME", "EMAIL", "TODO", "WEATHER", "CONVERSATION" }

\* An exception is raised inside the handler of TaskHandler: the call that
\* ends with outcome o raises, real_time_search() is called without its
\* argument, and TodoManager has no __call__
TaskHandlerRaises(task_type, d, o) ==
  CASE task_type = "WEBSEARCH" -> Get(d, "query") # "" /\ o = "raise"
    [] task_type = "REALTIME"  -> TRUE
    [] task_type = "EMAIL"     -> o = "raise"
    [] task_type = "TODO"      -> Get(d, "query") # ""
    [] task_type = "WEATHER"   -> Get(d, "city") # "" /\ o = "raise"
    [] OTHER                   -> FALSE

\* What the handler, and so TaskHandler.handle_task, returns: the handlers
\* log their own exceptions and fall off their end, handle_email returns a
\* text
TaskHandlerResult(task_type, d, o) ==
  CASE task_type \notin task_functions -> NoneResult
    [] task_type = "EMAIL" ->
         IF o = "success" THEN StrResult("Email sent successfully")
         ELSE IF o = "error" THEN StrResult("Failed to send email")
         ELSE StrResult("Failed to send email: ")
    [] task_type = "WEBSEARCH" /\ Get(d, "query") # "" /\ o # "raise" ->
         Value("dict", o, Absent, Absent, Absent)
    [] task_type = "WEATHER" /\ Get(d, "city") # "" /\ o # "raise" ->
         Value("dict", o, Absent, Absent, Absent)
    [] OTHER -> NoneResult

\* TaskHandler.handle_task(task_type, details): a synchronous call
TaskHandlerHandleTask(task_type, d, o) ==
  /\ Begin("TaskHandler.handle_task")
  /\ invoked' = IF task_type \in task_functions THEN task_type ELSE "none"
  /\ task' = [type |-> task_type, details |-> d]
  /\ pc' = "done"
  /\ outcome' = "returned"
  /\ ret' = TaskHandlerResult(task_type, d, o)
  /\ hfail' = TaskHandlerRaises(task_type, d, o)
  /\ text' = <<>>
  /\ query' = ""
  /\ rtsRet' = NoResult
  /\ sent' = <<>>
  /\ said' = <<>>
  /\ classified' = FALSE
  /\ UNCHANGED << pending, armed, timeVars, sessionVars, serviceVars, threadVars >>

\* classify_request of works.py.  The branch of "email" calls sendemail()
\* and ends without a return statement: the function returns None, which is
\* NoTask here.
works_classify_request(user_prompt) ==
  LET prompt == LowerText(user_prompt)
  IN  IF HasKeyword(prompt, "search")
      THEN IF HasKeyword(prompt, "web")
           THEN [type |-> "WEBSEARCH",
                 details |-> Details(JoinFrom(user_prompt, 1), Absent, Absent)]
           ELSE [type |-> "REALTIME", details |-> NoDetails]
      ELSE IF HasKeyword(prompt, "email")
      THEN NoTask
      ELSE IF HasKeyword(prompt, "todo")
      THEN [type |-> "TODO",
            details |-> Details(JoinFrom(user_prompt, 1), Absent, Absent)]
      ELSE IF HasKeyword(prompt, "weather")
      THEN [type |-> "WEATHER",
            details |-> CityDetails(IF HasTwoWordKeyword(prompt, <<"weather", "in">>)
                                    THEN CityOf(prompt) ELSE "")]
      ELSE [type |-> "CONVERSATION", details |-> NoDetails]

\* classify_request(user_prompt) of works.py is called; o is how the call of
\* sendemail() ends, a function that sendEmail.py does not define
WorksClassifyRequest(u, o) ==
  LET c      == works_classify_request(u)
      raises == HasKeyword(LowerText(u), "email") /\ ~ HasKeyword(LowerText(u), "search")
                  /\ o = "raise"
  IN  /\ Begin("works.classify_request")
      /\ invoked' = "none"
      /\ text' = u
      /\ task' = c
      /\ classified' = ~ raises
      /\ pc' = "done"
      /\ outcome' = IF raises THEN "raised" ELSE "returned"
      /\ ret' = NoResult
      /\ hfail' = FALSE
      /\ query' = ""
      /\ rtsRet' = NoResult
      /\ sent' = <<>>
      /\ said' = <<>>
      /\ UNCHANGED << pending, armed, timeVars, sessionVars, serviceVars, threadVars >>

\* ------------------------------------------------------------------------
\* The time tier and its cache: get_current_time, fetch_time_from_api and
\* CACHE = TTLCache(maxsize=1000, ttl=600) (realTimeSearch.py)
\* ------------------------------------------------------------------------

\* The capacity of the cache in entries and its time to live in clock ticks
MAXSIZE == 2

TTL == 2

\* The clock stops here
MaxNow == 4

\* The locations offered to get_current_time
Locations == { "utc", " Tokyo ", "tokyo", "us", "atlantis" }

\* location.strip().lower()
NormalizeLocation(l) == IF l = " Tokyo " THEN "tokyo" ELSE l

\* cache_key = f"time_{location}"
cache_key(l) == "time_" \o NormalizeLocation(l)

timezone_mappings ==
  { "nyc", "la", "chicago", "london", "paris", "berlin", "tokyo", "singapore",
    "dubai", "utc" }

country_zones == { "us", "india", "china", "russia" }

\* The result of a resolution made at time t: the text of "data" holds the
\* time of day at which it was made
TimeResult(source, t) == Value("dict", "success", source, Absent, ToString(t))

\* TTLCache.__contains__: the key has an entry and the entry has not expired
CacheContains(c, k, t) == \E i \in 1..Len(c) : c[i].key = k /\ t < c[i].expires

\* The entries of c other than the one of key k, in their order
CacheWithout(c, k) == SelectSeq(c, LAMBDA e : e.key # k)

\* TTLCache.__getitem__ on a key it contains: the value, and the entry
\* becomes the most recently used one
CacheValue(c, k) == (CHOOSE e \in { c[i] : i \in 1..Len(c) } : e.key = k).val

CacheTouch(c, k) ==
  Append(CacheWithout(c, k), CHOOSE e \in { c[i] : i \in 1..Len(c) } : e.key = k)

\* TTLCache.expire(time): the expired entries are removed
CacheExpire(c, t) == SelectSeq(c, LAMBDA e : t < e.expires)

\* A faulty variant of CacheSetItem: the entry expires one tick late
CacheSetItem_late(c, k, v, t) ==
  LET live == CacheExpire(c, t)
      rest == CacheWithout(live, k)
      room == IF Len(rest) >= MAXSIZE THEN Tail(rest) ELSE rest
  IN  Append(room, [key |-> k, val |-> v, expires |-> t + TTL + 1])

\* TTLCache.__setitem__ at time t: expired entries are removed, then, for a
\* new key in a full cache, the least recently used entry; the entry of k
\* becomes the most recently used one and expires at t + ttl
CacheSetItem(c, k, v, t) ==
  LET live == CacheExpire(c, t)
      rest == CacheWithout(live, k)
      room == IF Len(rest) >= MAXSIZE THEN Tail(rest) ELSE rest
  IN  Append(room, [key |-> k, val |-> v, expires |-> t + TTL])

\* get_current_time ends with the dict r
TimeReturns(r) ==
  /\ pc' = "done"
  /\ outcome' = "returned"
  /\ ret' = r
  /\ rtsRet' = r

\* The most that the clock advances between two reads of it in one call
MaxDrift == 1

\* get_current_time(location), which is also what handle_time awaits: up to
\* its return or to the await of fetch_time_from_api.  `cache_key in CACHE`
\* and `CACHE[cache_key]` each read the clock of the cache; it advances by d
\* between them.  An entry that expires in between makes CACHE[cache_key]
\* raise KeyError, which the `except Exception` of get_current_time turns
\* into an error result.
GetCurrentTime(l, d) ==
  LET location == NormalizeLocation(l)
      k == cache_key(l)
      t == now + d
  IN  /\ Begin("get_current_time")
      /\ invoked' = "none"
      /\ query' = l
      /\ t <= MaxNow
      /\ now' = t
      /\ IF CacheContains(cache, k, now)
         THEN IF CacheContains(cache, k, t)
              THEN /\ hit' = TRUE
                   /\ cache' = CacheTouch(cache, k)
                   /\ TimeReturns(CacheValue(cache, k))
              ELSE /\ hit' = FALSE
                   /\ TimeReturns(error_response("Time lookup failed"))
                   /\ UNCHANGED cache
         ELSE IF location \in country_zones \/ location \in timezone_mappings
         THEN /\ hit' = FALSE
              /\ cache' = CacheSetItem(cache, k, TimeResult("timezone_db", t), t)
              /\ TimeReturns(TimeResult("timezone_db", t))
         ELSE /\ hit' = FALSE
              /\ pc' = "time_api"
              /\ outcome' = "running"
              /\ ret' = NoResult
              /\ rtsRet' = NoResult
              /\ UNCHANGED cache
      /\ text' = <<>>
      /\ task' = NoTask
      /\ sent' = <<>>
      /\ said' = <<>>
      /\ classified' = FALSE
      /\ hfail' = FALSE
      /\ UNCHANGED << pending, armed, sessionVars, serviceVars, threadVars >>

\* fetch_time_from_api: the outcome of its HTTP requests to its result
FetchTimeResult(o, t) ==
  CASE o = "found"    -> TimeResult("timeapi.io", t)
    [] o = "notfound" -> error_response("Location not found")
    [] o = "raise"    -> error_response("Could not determine time for this location")

\* The HTTP requests of fetch_time_from_api end, and get_current_time
\* returns what fetch_time_from_api returns
FetchTimeReturns(o) ==
  /\ pc = "time_api"
  /\ TimeReturns(FetchTimeResult(o, now))
  /\ UNCHANGED << timeVars, sessionVars, serviceVars, threadVars, opFrame, pending, armed, sent, said, gen, resp, fellBack, hfail >>

\* The clock of the cache advances
Advance ==
  /\ now < MaxNow
  /\ now' = now + 1
  /\ UNCHANGED << pending, pc, entry, text, task, query, elapsed, armed, ret, outcome, sent,
                  said, classified, gen, resp, fellBack, rtsRet, hfail, cache, hit,
                  invoked, pending0, sessionVars, serviceVars, threadVars >>

\* ------------------------------------------------------------------------
\* Time
\* ------------------------------------------------------------------------

\* The timeout of asyncio.wait_for is delivered: the handler is cancelled at
\* its await and handle_task returns from `except asyncio.TimeoutError`
Timeout ==
  /\ armed
  /\ elapsed >= TASK_TIMEOUT
  /\ pc \in AwaitPcs
  /\ RouterReturns(OnTimeout, entry, said, FALSE)
  /\ inThread' = FALSE
  /\ orphan' = (orphan \/ inThread)
  /\ UNCHANGED << timeVars, sessionVars, serviceVars, opFrame, pending, sent, gen, resp, fellBack, rtsRet >>

\* One tick of the clock while an operation is in flight.  With the timeout
\* armed and the handler at an await, the event loop delivers the timeout
\* when it is due; inside a synchronous call the loop does not run.
Tick ==
  /\ pc \notin {"idle", "done"}
  /\ elapsed < MaxElapsed
  /\ armed /\ pc \in AwaitPcs => elapsed < TASK_TIMEOUT
  /\ elapsed' = elapsed + 1
  /\ UNCHANGED << pending, pc, entry, text, task, query, armed, ret, outcome, sent,
                  said, classified, gen, resp, fellBack, rtsRet, hfail, invoked,
                  pending0, timeVars, sessionVars, serviceVars, threadVars >>

\* The caller has taken the result of the operation: the next utterance or
\* call finds the agent's context as the operation left it
Release ==
  /\ pc = "done"
  /\ pc' = "idle"
  /\ entry' = "none"
  /\ text' = <<>>
  /\ task' = NoTask
  /\ query' = ""
  /\ elapsed' = 0
  /\ ret' = NoResult
  /\ outcome' = "returned"
  /\ sent' = <<>>
  /\ said' = <<>>
  /\ classified' = FALSE
  /\ gen' = NoGen
  /\ resp' = NoResp
  /\ fellBack' = FALSE
  /\ rtsRet' = NoResult
  /\ hfail' = FALSE
  /\ hit' = FALSE
  /\ invoked' = "none"
  /\ pending0' = pending
  /\ UNCHANGED << pending, armed, cache, now, sessionVars, serviceVars, threadVars >>

Next ==
  \/ \E u \in Utterances : MessageHandlerConfirm(u)
  \/ \E u \in Utterances : MessageHandlerCancel(u)
  \/ \E u \in Utterances : MessageHandlerEdit(u)
  \/ \E u \in Utterances, g \in GeminiInits : MessageHandlerRoute(u, g)
  \/ \E t \in TaskTypes, d \in DirectDetails, g \in GeminiInits : HandleTask(t, d, g)
  \/ \E q \in Queries, g \in GeminiInits : RealTimeSearch(q, g)
  \/ \E u \in Utterances, g \in GeminiInits, o \in {"ok", "raise"} :
       AnalyzePromptAndRouteTask(u, g, o)
  \/ \E t \in TaskTypes, d \in DirectDetails, o \in {"success", "error", "raise"} :
       TaskHandlerHandleTask(t, d, o)
  \/ \E u \in Utterances, o \in {"ok", "raise"} : WorksClassifyRequest(u, o)
  \/ \E o \in {"success", "error", "raise"} : SendReturns(o)
  \/ \E o \in {"ok", "raise"} : SayReturns(o)
  \/ \E o \in {"ok", "raise"}, v \in GenTexts : EditGenerateReturns(o, v)
  \/ \E o \in {"ok", "raise"} : ProcessMessageReturns(o)
  \/ WebSearchEntersThread
  \/ \E o \in {"success", "error"} : WebSearchReturns(o)
  \/ WorkerEnds
  \/ \E o \in {"ok", "raise"}, v \in GenTexts : EmailGenerateReturns(o, v)
  \/ \E o \in {"success", "error", "raise"} : EmailSendReturns(o)
  \/ \E o \in {"success", "error", "raise"} : WeatherReturns(o)
  \/ TodoReturns
  \/ \E o \in {"response", "raise"}, r \in GeminiResponses : GeminiReturns(o, r)
  \/ \E o \in {"results", "empty", "raise"} : FallbackReturns(o)
  \/ Timeout
  \/ Tick
  \/ Release

Spec == Init /\ [][Next]_vars

\* The time tier alone: direct calls of get_current_time while the clock of
\* the cache advances
NextTime ==
  \/ \E l \in Locations, d \in 0..MaxDrift : GetCurrentTime(l, d)
  \/ \E o \in {"found", "notfound", "raise"} : FetchTimeReturns(o)
  \/ Advance
  \/ Release

SpecTime == Init /\ [][NextTime]_vars

\* ------------------------------------------------------------------------
\* Concurrent invocations of entrypoint.message_handler (opencode/agent.py).
\* message_handler is a coroutine that takes no lock and keeps no queue: an
\* invocation that is suspended at an await leaves the event loop to the
\* other invocations, of the same conversation and of the others.
\* ------------------------------------------------------------------------

\* The variables of a single operation of the router
operationVars ==
  << pending, pc, entry, text, task, query, elapsed, armed, ret, outcome, sent, said,
     classified, gen, resp, fellBack, rtsRet, hfail, invoked, pending0 >>

\* A faulty variant of ContextOf: every conversation uses the context of
\* the agent of conversation "a"
ContextOf_shared(c) == "a"

\* The context that message_handler of conversation c reads and writes:
\* that of the agent which entrypoint constructed for this conversation
ContextOf(c) == c

\* The utterances that arrive in a conversation
ConvUtterances == { <<"confirm">>, <<"cancel">>, <<"edit">>, <<"hello">> }

\* Where the branch is first suspended
FirstPc(branch) ==
  CASE branch = "confirm" -> "send"
    [] branch = "cancel"  -> "say"
    [] branch = "edit"    -> "gen_content"
    [] OTHER              -> "route"

\* The invocation has left message_handler: its locals are gone.  It has
\* returned, or it has raised exception e.
Ended(r) == [FreeSlot EXCEPT !.conv = r.conv, !.pc = "ended"]

Raised(r, e) == [FreeSlot EXCEPT !.conv = r.conv, !.pc = "raised", !.err = e]

\* The text that agent.llm.generate produces in these conversations
ConvGenTexts == {" padded "}

\* message_handler(text) is invoked in conversation c and runs up to its
\* first await
ConvMessageHandler(c, u) ==
  \E h \in Slots :
    /\ handlings[h].pc = "free"
    /\ \A g \in Slots : g < h => handlings[g].pc # "free"
    /\ LET p == context[ContextOf(c)]
           b == Branch(p, u)
       IN  handlings' = [handlings EXCEPT ![h] =
                           [conv |-> c, text |-> u, branch |-> b, pc |-> FirstPc(b),
                            email_data |-> IF b \in {"confirm", "edit"} THEN p ELSE NoPending,
                            content |-> Absent, err |-> "none"]]
    /\ UNCHANGED << context, sentOk, listening_for_wakeword, sessions,
                    operationVars, timeVars, serviceVars, threadVars >>

\* del agent.context["pending_email"], and the return that follows it
DeletePending(h) ==
  LET r == handlings[h]
      k == ContextOf(r.conv)
  IN  IF context[k] = NoPending
      THEN /\ handlings' = [handlings EXCEPT ![h] = Raised(r, "KeyError")]
           /\ UNCHANGED context
      ELSE /\ context' = [context EXCEPT ![k] = NoPending]
           /\ handlings' = [handlings EXCEPT ![h] = Ended(r)]

\* The send of the confirm branch ends in invocation h
ConvSendReturns(h, o) ==
  LET r == handlings[h]
  IN  /\ r.pc = "send"
      /\ IF o = "raise"
         THEN /\ handlings' = [handlings EXCEPT ![h] = Raised(r, "send")]
              /\ UNCHANGED sentOk
         ELSE /\ handlings' = [handlings EXCEPT ![h].pc = "say"]
              /\ sentOk' = [sentOk EXCEPT ![r.conv] = @ + (IF o = "success" THEN 1 ELSE 0)]
      /\ UNCHANGED << context, listening_for_wakeword, sessions, operationVars, timeVars, serviceVars, threadVars >>

\* agent.say ends in invocation h: the confirm and the cancel branch then
\* delete the pending e-mail, the edit branch returns
ConvSayReturns(h, o) ==
  LET r == handlings[h]
  IN  /\ r.pc = "say"
      /\ IF o = "raise"
         THEN /\ handlings' = [handlings EXCEPT ![h] = Raised(r, "say")]
              /\ UNCHANGED context
         ELSE IF r.branch = "edit"
         THEN /\ handlings' = [handlings EXCEPT ![h] = Ended(r)]
              /\ UNCHANGED context
         ELSE DeletePending(h)
      /\ UNCHANGED << sentOk, listening_for_wakeword, sessions, operationVars, timeVars, serviceVars, threadVars >>

\* agent.llm.generate ends in invocation h, in the edit branch: after the
\* second text both are stored in agent.context["pending_email"]
ConvGenerateReturns(h, o, v) ==
  LET r == handlings[h]
      k == ContextOf(r.conv)
  IN  /\ r.pc \in {"gen_content", "gen_subject"}
      /\ IF o = "raise"
         THEN /\ handlings' = [handlings EXCEPT ![h] = Raised(r, "generate")]
              /\ UNCHANGED context
         ELSE IF r.pc = "gen_content"
         THEN /\ handlings' = [handlings EXCEPT ![h].pc = "gen_subject", ![h].content = v]
              /\ UNCHANGED context
         ELSE IF context[k] = NoPending
         THEN /\ handlings' = [handlings EXCEPT ![h] = Raised(r, "KeyError")]
              /\ UNCHANGED context
         ELSE /\ context' = [context EXCEPT ![k] = EditedPending(context[k], r.content, v)]
              /\ handlings' = [handlings EXCEPT ![h].pc = "say"]
      /\ UNCHANGED << sentOk, listening_for_wakeword, sessions, operationVars, timeVars, serviceVars, threadVars >>

\* The normal task processing ends in invocation h: classify_request,
\* handle_task and agent.say or agent.process_message
ConvRouteReturns(h, o) ==
  LET r == handlings[h]
  IN  /\ r.pc = "route"
      /\ handlings' = [handlings EXCEPT ![h] =
                         IF o = "raise" THEN Raised(r, "route") ELSE Ended(r)]
      /\ UNCHANGED << context, sentOk, listening_for_wakeword, sessions,
                      operationVars, timeVars, serviceVars, threadVars >>

NextConv ==
  \/ \E c \in Conversations, u \in ConvUtterances : ConvMessageHandler(c, u)
  \/ \E h \in Slots, o \in {"success", "error", "raise"} : ConvSendReturns(h, o)
  \/ \E h \in Slots, o \in {"ok", "raise"} : ConvSayReturns(h, o)
  \/ \E h \in Slots, o \in {"ok", "raise"}, v \in ConvGenTexts : ConvGenerateReturns(h, o, v)
  \/ \E h \in Slots, o \in {"ok", "raise"} : ConvRouteReturns(h, o)

SpecConv == InitConv /\ [][NextConv]_vars

\* ------------------------------------------------------------------------
\* The voice sessions of dummy/Audio.py: listen_and_route_tasks registers
\* callback with the recognizer, and callback reads and writes the
\* module-level flag listening_for_wakeword
\* ------------------------------------------------------------------------

\* What the recognizer hands to callback: the wake word, something else, a
\* recording without speech, a command, and a command that holds
\* "thank you for your help"
Audios == {"wake", "noise", "empty", "command", "thanks"}

\* What callback speaks for the result of analyze_prompt_and_route_task
Spoken(a, o) ==
  IF a = "empty" THEN "Empty prompt, please speak again"
  ELSE IF o = "raise" THEN "I am sorry, I could not understand you, please try again"
  ELSE IF a = "thanks" THEN "You're welcome! Have a great day!"
  ELSE IF o = "error" THEN "Error: "
  ELSE "Task completed successfully"

\* Faulty variant: the closing words are looked for only after a routing
\* that succeeded
ThanksHandled_onSuccess(a, o) == a = "thanks" /\ o = "success"

\* The test for "thank you for your help" is reached, after the result of
\* the routing was spoken, and finds the words
ThanksHandled(a, o) == a = "thanks" /\ o # "raise"

\* callback(recognizer, audio) of session x. o is how the calls it makes
\* end: the routing reports success or error, or a call raises (the
\* recognition of the wake word, the speaking of the result). routed is the
\* utterance handed to analyze_prompt_and_route_task and how its handling
\* ended; an empty prompt is not routed.
Callback(x, a, o) ==
  /\ IF listening_for_wakeword
     THEN /\ listening_for_wakeword' = ~ (a = "wake" /\ o # "raise")
          /\ sessions' = [sessions EXCEPT ![x].heard = a]
     ELSE /\ listening_for_wakeword' = ThanksHandled(a, o)
          /\ sessions' = [sessions EXCEPT ![x] = [heard |-> a, spoke |-> Spoken(a, o),
                                                  routed |-> IF a = "empty" THEN @.routed
                                                             ELSE << a, o >>]]
  /\ UNCHANGED << context, handlings, sentOk, operationVars, timeVars, serviceVars, threadVars >>

NextVoice == \E x \in Sessions, a \in Audios, o \in {"success", "error", "raise"} : Callback(x, a, o)

SpecVoice == Init /\ [][NextVoice]_vars

\* ---------------------------------------------------------------------
\* DualAIChatBot of stream/llm.py
\* ---------------------------------------------------------------------

\* The largest max_retries offered to generate_response
MaxRetries == 1

\* The calls of generate_response made on one bot
MaxCalls == 2

\* The depth of nested _try_openai/_try_gemini calls at which the
\* interpreter raises RecursionError
RecursionLimit == 4

APOLOGY == "Sorry, I'm currently unable to process requests. Please try again later."

\* DualAIChatBot(openai_api_key, gemini_api_key, model_preference) with at
\* least one key
DualAIChatBot(k, m) ==
  /\ bot.pc = "new"
  /\ k # {}
  /\ bot' = NewBot(k, m)
  /\ UNCHANGED << operationVars, timeVars, sessionVars, threadVars, loop, mail, manager >>

\* generate_response(prompt, max_retries = r) is called. It starts with
\* the preferred provider when that is available, otherwise with the choice
\* of _fallback_strategy, q = "none" standing for its RuntimeError
GenerateResponse(r) ==
  /\ bot.pc \in {"idle", "done"}
  /\ bot.calls < MaxCalls
  /\ LET q == IF bot.model_preference = "openai" /\ bot.openai_available THEN "openai"
              ELSE IF bot.model_preference = "gemini" /\ bot.gemini_available THEN "gemini"
              ELSE IF bot.openai_available THEN "openai"
              ELSE IF bot.gemini_available THEN "gemini"
              ELSE "none"
         b == [bot EXCEPT !.calls = @ + 1, !.retries = r, !.attempt = 0,
                          !.attempts = [x \in Providers |-> 0],
                          !.failures = FALSE, !.stale = FALSE]
     IN  bot' = IF q = "none"
                THEN [b EXCEPT !.pc = "done", !.ret = APOLOGY, !.depth = 0]
                ELSE [b EXCEPT !.pc = q, !.ret = "none", !.depth = 1]
  /\ UNCHANGED << operationVars, timeVars, sessionVars, threadVars, loop, mail, manager >>

\* One pass of the loop of _try_openai or _try_gemini: the request returns
\* a text or raises. Without its API key a provider raises before any
\* request. The last failure marks the provider unavailable and calls the
\* other provider's method, whatever that provider's mark.
ProviderAnswers(o) ==
  /\ bot.pc \in Providers
  /\ bot.pc \notin bot.keys => o = "raise"
  /\ LET q == bot.pc
         other == IF q = "openai" THEN "gemini" ELSE "openai"
         available == IF q = "openai" THEN bot.openai_available ELSE bot.gemini_available
         b == [bot EXCEPT !.attempts[q] = @ + 1,
                          !.stale = @ \/ (q \in bot.keys /\ ~ available)]
         marked == IF q = "openai" THEN [b EXCEPT !.openai_available = FALSE]
                                   ELSE [b EXCEPT !.gemini_available = FALSE]
     IN  bot' =
           IF o = "text" THEN [b EXCEPT !.pc = "done", !.ret = "text"]
           ELSE IF bot.attempt < bot.retries THEN [b EXCEPT !.attempt = @ + 1]
           ELSE IF bot.depth >= RecursionLimit
                THEN [marked EXCEPT !.pc = "done", !.ret = APOLOGY, !.failures = TRUE]
                ELSE [marked EXCEPT !.pc = other, !.attempt = 0, !.depth = @ + 1]
  /\ UNCHANGED << operationVars, timeVars, sessionVars, threadVars, loop, mail, manager >>

NextChat ==
  \/ \E k \in SUBSET Providers, m \in {"openai", "gemini", "other"} : DualAIChatBot(k, m)
  \/ \E r \in 0..MaxRetries : GenerateResponse(r)
  \/ \E o \in {"text", "raise"} : ProviderAnswers(o)

SpecChat == Init /\ [][NextChat]_vars

\* ---------------------------------------------------------------------
\* continuous_conversation_loop of stream/Ai.py. Times are in tenths of a
\* second.
\* ---------------------------------------------------------------------

\* The pause threshold of 1.5 seconds
PAUSE_THRESHOLD == 15

\* The time up to which the loop is followed
MaxClock == 40

\* "exit" in current_transcript.lower()
HasExit(t) == (IF t = "Exit now" THEN "exit now" ELSE t) = "exit now"

\* The outer loop starts a transcription session: create_task(get_transcript())
StartTranscription ==
  /\ loop.pc = "start"
  /\ loop' = [loop EXCEPT !.pc = "listening", !.active_transcription = TRUE,
                          !.collected = "", !.quiet = 0, !.handled = "",
                          !.cancelled = FALSE]
  /\ UNCHANGED << operationVars, timeVars, sessionVars, threadVars, bot, mail, manager >>

\* One pass of the inner loop: sleep for d (one tenth, or more when the
\* event loop is busy), read the collector, then the exit test, the
\* activity stamp or the pause branch. During the sleep the transcription
\* task delivers h to the collector: nothing, further speech, or (its code
\* is not part of the sources) an emptied collector. handle_llm_response
\* drops a blank prompt.
Poll(d, h) ==
  /\ loop.pc = "listening"
  /\ loop.clock + d <= MaxClock
  /\ LET t   == loop.clock + d
         current_transcript == CASE h = "nothing" -> loop.transcript
                                 [] h = "emptied" -> ""
                                 [] OTHER         -> h
         l   == [loop EXCEPT !.clock = t,
                             !.transcript = current_transcript,
                             !.collected = IF current_transcript # ""
                                           THEN current_transcript ELSE @,
                             !.quiet = IF h \in {"hello", "Exit now"} THEN 0 ELSE @ + d]
     IN  loop' =
           IF HasExit(current_transcript) THEN [l EXCEPT !.pc = "exited"]
           ELSE IF current_transcript # "" THEN [l EXCEPT !.last_activity_time = t]
           ELSE IF t - loop.last_activity_time > PAUSE_THRESHOLD /\ loop.active_transcription
                THEN [l EXCEPT !.handled = IF current_transcript = "" THEN @
                                            ELSE current_transcript,
                               !.transcript = "", !.cancelled = TRUE,
                               !.active_transcription = FALSE, !.pc = "start"]
                ELSE l
  /\ UNCHANGED << operationVars, timeVars, sessionVars, threadVars, bot, mail, manager >>

NextLoop ==
  \/ StartTranscription
  \/ \E d \in {1, 8}, h \in {"nothing", "hello", "Exit now", "emptied"} : Poll(d, h)

SpecLoop == Init /\ [][NextLoop]_vars

\* ---------------------------------------------------------------------
\* send_email_interactive of sendEmail.py. A text is the sequence of its
\* characters.
\* ---------------------------------------------------------------------

\* The longest subject accepted
SUBJECT_MAX == 150

\* ServiceConfig.MAX_CONTENT_LENGTH
MAX_CONTENT_LENGTH == 1048576

\* The attempts of the retry decorator of send_email
MAX_RETRIES == 3

\* The lines of body typed before input() is closed
MaxLines == 2

\* re.match(EMAIL_REGEX, t)
MatchesEmail(t) ==
  LET Letters == {"a", "b", "d", "e", "h", "i", "n", "o", "s", "x", "y",
                  "D", "E", "N", "Y"}
      LocalChars  == Letters \cup {"1", "_", ".", "+", "-"}
      DomainChars == Letters \cup {"1", "-"}
      TailChars   == Letters \cup {"1", "-", "."}
  IN
  \E i \in 2..Len(t), j \in 4..(Len(t) - 1) :
    /\ i + 1 < j
    /\ t[i] = "@" /\ t[j] = "."
    /\ \A k \in 1..(i - 1) : t[k] \in LocalChars
    /\ \A k \in (i + 1)..(j - 1) : t[k] \in DomainChars
    /\ \A k \in (j + 1)..Len(t) : t[k] \in TailChars

\* t.strip()
StripChars(t) ==
  LET inked == { k \in 1..Len(t) : t[k] \notin {" ", "\n"} }
  IN  IF inked = {} THEN <<>>
      ELSE LET a == CHOOSE k \in inked : \A m \in inked : k <= m
               b == CHOOSE k \in inked : \A m \in inked : m <= k
           IN  SubSeq(t, a, b)

\* t.lower()
LowerChars(t) ==
  LET LowerChar(c) ==
        CASE c = "Y" -> "y" [] c = "E" -> "e" [] c = "N" -> "n" [] c = "D" -> "d"
          [] OTHER -> c
  IN  [k \in 1..Len(t) |-> LowerChar(t[k])]

\* t.upper()
UpperChars(t) ==
  LET UpperChar(c) ==
        CASE c = "y" -> "Y" [] c = "e" -> "E" [] c = "n" -> "N" [] c = "d" -> "D"
          [] c = "a" -> "A" [] c = "b" -> "B" [] c = "h" -> "H" [] c = "i" -> "I"
          [] c = "o" -> "O" [] c = "s" -> "S" [] c = "x" -> "X"
          [] OTHER -> c
  IN  [k \in 1..Len(t) |-> UpperChar(t[k])]

\* '\n'.join(lines)
RECURSIVE JoinLines(_)
JoinLines(lines) ==
  IF lines = <<>> THEN <<>>
  ELSE IF Len(lines) = 1 THEN lines[1]
  ELSE lines[1] \o <<"\n">> \o JoinLines(Tail(lines))

\* The subjects typed: empty, blank, short, of 150 and of 151 characters,
\* and of 150 characters between blanks
TypedSubjects ==
  LET Rep(c, n) == [k \in 1..n |-> c]
  IN  { <<>>, <<" ">>, <<"h", "i">>, Rep("s", SUBJECT_MAX), Rep("s", SUBJECT_MAX + 1),
        <<" ">> \o Rep("s", SUBJECT_MAX) \o <<" ">> }

\* Faulty variant: every answer but a plain "n" counts as consent
Consents_unlessNo(answer) == answer # <<"n">>

\* confirmation = input(...).strip().lower(); the mail is sent when this is 'y'
Consents(answer) == LowerChars(StripChars(answer)) = <<"y">>

\* The recipient is asked for until the stripped input matches the
\* pattern; an input that does not match leaves everything as it is
InputRecipient(t) ==
  /\ mail.pc = "recipient"
  /\ LET recipient == StripChars(t)
     IN  /\ MatchesEmail(recipient)
         /\ mail' = [mail EXCEPT !.recipient = recipient, !.pc = "subject"]
  /\ UNCHANGED << operationVars, timeVars, sessionVars, threadVars, bot, loop, manager >>

\* The subject is asked for until the stripped input is non-empty and has
\* at most 150 characters; another input leaves everything as it is
InputSubject(t) ==
  /\ mail.pc = "subject"
  /\ LET subject == StripChars(t)
     IN  /\ Len(subject) <= SUBJECT_MAX /\ subject # <<>>
         /\ mail' = [mail EXCEPT !.subject = subject, !.pc = "body"]
  /\ UNCHANGED << operationVars, timeVars, sessionVars, threadVars, bot, loop, manager >>

\* A line of the body; END or the end of the input closes the body, and an
\* empty body ends the function
InputLine(line) ==
  /\ mail.pc = "body"
  /\ IF line = << "EOF" >> \/ UpperChars(StripChars(line)) = <<"E", "N", "D">>
     THEN LET body == StripChars(JoinLines(mail.body_lines))
          IN  mail' = [mail EXCEPT !.body = body,
                                   !.pc = IF body = <<>> THEN "done" ELSE "confirmation"]
     ELSE /\ Len(mail.body_lines) < MaxLines
          /\ mail' = [mail EXCEPT !.body_lines = Append(@, line)]
  /\ UNCHANGED << operationVars, timeVars, sessionVars, threadVars, bot, loop, manager >>

\* The answer to "Send this email? (y/N)"; on consent construct_message
\* validates the components (_validate_email_components) and send_email
\* makes its first attempt
InputConfirmation(t) ==
  /\ mail.pc = "confirmation"
  /\ mail' = IF /\ Consents(t)
                /\ MatchesEmail(mail.recipient)
                /\ Len(mail.subject) <= SUBJECT_MAX
                /\ Len(mail.body) <= MAX_CONTENT_LENGTH
             THEN [mail EXCEPT !.answer = t, !.pc = "sending", !.attempt = 1,
                               !.handed = << Message(mail.recipient, mail.subject, mail.body) >>]
             ELSE [mail EXCEPT !.answer = t, !.pc = "done"]
  /\ UNCHANGED << operationVars, timeVars, sessionVars, threadVars, bot, loop, manager >>

\* An attempt of send_email ends; a failed one is retried while attempts
\* remain
SendEmailReturns(o) ==
  /\ mail.pc = "sending"
  /\ mail' = IF o = "raise" /\ mail.attempt < MAX_RETRIES
             THEN [mail EXCEPT !.attempt = @ + 1, !.handed = Append(@, @[1])]
             ELSE [mail EXCEPT !.pc = "done"]
  /\ UNCHANGED << operationVars, timeVars, sessionVars, threadVars, bot, loop, manager >>

NextMail ==
  \/ \E t \in { <<"b", "@", "x", ".", "i", "o">>, <<" ", "b", "@", "x", ".", "i", "o", " ">>,
                <<"b", "o", "b">>, <<"b", "@", "x">>, <<"@", "x", ".", "i", "o">>, <<>> } :
       InputRecipient(t)
  \/ \E t \in TypedSubjects : InputSubject(t)
  \/ \E l \in { <<"h", "i">>, <<" ">>, <<"E", "N", "D">>, <<" ", "e", "n", "d">>,
                << "EOF" >> } :
       InputLine(l)
  \/ \E t \in { <<"y">>, <<"Y">>, <<" ", "y", " ">>, <<"n">>, <<"y", "e", "s">>, <<>> } :
       InputConfirmation(t)
  \/ \E o \in {"sent", "raise"} : SendEmailReturns(o)

SpecMail == Init /\ [][NextMail]_vars

\* ---------------------------------------------------------------------
\* TodoManager.create_todo of todo.py
\* ---------------------------------------------------------------------

\* The calls of create_todo made on one manager
MaxCreates == 4

\* create_todo(title, description, due_date). due_date is absent, an ISO
\* date or a text for which datetime.fromisoformat raises ValueError; c is
\* how the insertion of the calendar event ends; o is how _save_todos ends:
\* the file is written, open raises and the file is as it was, or the
\* write raises after open has truncated the file
CreateTodo(due_date, c, o) ==
  /\ manager.calls < MaxCreates
  /\ LET todo_id == manager.calls + 1
         m == [manager EXCEPT !.calls = todo_id,
                              !.before = [todos |-> manager.todos, stored |-> manager.stored]]
         todo == [ id |-> todo_id,
                   calendar_event_id |-> (due_date # "none" /\ c = "inserted") ]
         t == manager.todos \cup {todo}
         saved == CASE o = "saved"        -> [intact |-> TRUE, ids |-> { x.id : x \in t }]
                    [] o = "open_raises"  -> manager.stored
                    [] o = "write_raises" -> [intact |-> FALSE, ids |-> {}]
     IN  manager' =
           IF due_date = "tomorrow" THEN [m EXCEPT !.status = "error"]
           ELSE [m EXCEPT !.todos = t,
                          !.stored = saved,
                          !.status = IF o = "saved" THEN "success" ELSE "error"]
  /\ UNCHANGED << operationVars, timeVars, sessionVars, threadVars, bot, loop, mail >>

NextTodo ==
  \E d \in {"none", "2025-01-01T10:00:00", "tomorrow"}, c \in {"inserted", "raise"},
     o \in {"saved", "open_raises", "write_raises"} :
    CreateTodo(d, c, o)

SpecTodo == Init /\ [][NextTodo]_vars

\* ------------------------------------------------------------------------
\* Properties
\* ------------------------------------------------------------------------

HasConfirm(u) == HasKeyword(LowerText(u), "confirm")

HasCancel(u) == HasKeyword(LowerText(u), "cancel")

HasEdit(u) == HasKeyword(LowerText(u), "edit")

\* message_handler is handling, or has just handled, an utterance that it
\* received with an e-mail pending (state PENDING)
TurnInPending == entry = "message_handler" /\ pending0 # NoPending

\* message_handler has ended, by a return or by an exception
TurnEnded == entry = "message_handler" /\ pc = "done"

\* C1: for every task category the router stops waiting for its handler when
\* the task timeout has elapsed and returns the timeout error instead, even
\* if the handler never completes: handle_task is never still waiting for
\* a handler after more than TASK_TIMEOUT.
C1_RouterNeverWaitsPastTimeout ==
  armed => elapsed <= TASK_TIMEOUT

\* The operations that route a task to its handler
RouterEntries == {"handle_task", "analyze_prompt_and_route_task", "TaskHandler.handle_task"}

\* The value reports an error: a dict of status "error", or the text that
\* the `except Exception` branch of a router or of handle_email returns
IsErrorResult(r) ==
  \/ r.shape = "dict" /\ r.status = "error"
  \/ r.shape = "str" /\ r.msg \in {SorryMessage, "Failed to send email: "}

\* C2: whenever a handler raises for any reason, the routing operation
\* (handle_task / analyze_prompt_and_route_task) catches the exception and
\* returns an error result to its caller; no handler failure reaches the
\* caller as an exception.
C2_HandlerFailureBecomesErrorResult ==
  (entry \in RouterEntries /\ pc = "done") =>
    /\ outcome = "returned"
    /\ hfail => IsErrorResult(ret)

\* C3: every invocation of message_handler, in either confirmation state and
\* on the confirm and edit paths too, ends within the configured timeout
\* and never raises.
C3_MessageHandlerBoundedAndSilent ==
  entry = "message_handler" =>
    /\ outcome # "raised"
    /\ pc # "done" => elapsed <= TASK_TIMEOUT

\* C4: starting in state NONE, an utterance classified as EMAIL sends no
\* message in that turn, creates the pending e-mail (state PENDING) and
\* emits the draft for review.
C4_EmailRequestCreatesPending ==
  (TurnEnded /\ pending0 = NoPending /\ classify_request(text).type = "EMAIL") =>
    /\ sent = <<>>
    /\ pending # NoPending
    /\ said # <<>>

\* C5: in state PENDING an utterance containing "confirm" hands the pending
\* e-mail to the mail provider, destroys the pending e-mail (state NONE) and
\* is not passed to the classifier.
C5_ConfirmSendsAndClears ==
  (TurnEnded /\ pending0 # NoPending /\ HasConfirm(text)) =>
    /\ Len(sent) = 1
    /\ sent[1].subject = pending0.subject
    /\ sent[1].body = pending0.content
    /\ pending = NoPending
    /\ ~ classified

\* C6: in state PENDING an utterance containing "cancel" and no "confirm"
\* discards the pending e-mail without any call of the provider's send, and
\* the state returns to NONE.
C6_CancelDiscardsWithoutSend ==
  (TurnInPending /\ HasCancel(text) /\ ~ HasConfirm(text)) =>
    /\ sent = <<>>
    /\ pc = "done" => pending = NoPending

\* C7 as stated: in state PENDING an utterance containing "edit" sends
\* nothing and leaves the state PENDING (with the payload regenerated).
C7_EditKeepsPending_AsStated ==
  (TurnInPending /\ HasEdit(text)) =>
    /\ sent = <<>>
    /\ pending # NoPending

\* C7 amended: in state PENDING an utterance containing "edit" and neither
\* "confirm" nor "cancel" sends nothing and leaves exactly one pending
\* e-mail; its subject and content are the stripped regenerated texts from
\* the moment both have been generated, and the previous ones until then.
C7_EditRegeneratesInPlace ==
  (TurnInPending /\ HasEdit(text) /\ ~ HasConfirm(text) /\ ~ HasCancel(text)) =>
    /\ sent = <<>>
    /\ pending # NoPending
    /\ gen.subject = Absent => pending = pending0
    /\ gen.subject # Absent =>
         /\ pending.subject = (IF gen.subject = " padded " THEN "padded" ELSE gen.subject)
         /\ pending.content = (IF gen.content = " padded " THEN "padded" ELSE gen.content)

\* An edit turn has returned with different texts generated for the subject
\* and for the content, the content one needing the strip.
C7_Witness ==
  /\ TurnEnded /\ pending0 # NoPending /\ outcome = "returned"
  /\ HasEdit(text) /\ ~ HasConfirm(text) /\ ~ HasCancel(text)
  /\ gen.content = " padded " /\ gen.subject = "new"
  /\ pending = [pending0 EXCEPT !.subject = "new", !.content = "padded"]

\* C8: in state PENDING an utterance with none of the three signals is
\* classified and routed like a fresh request, and the pending e-mail is
\* left as it was throughout the turn.
C8_OtherUtteranceKeepsPending ==
  (TurnInPending /\ ~ HasConfirm(text) /\ ~ HasCancel(text) /\ ~ HasEdit(text)) =>
    /\ pending = pending0
    /\ classified
    /\ task = [type |-> classify_request(text).type,
               details |-> classify_request(text).details]

\* A turn for an unrelated request (a weather question) has been routed to
\* its handler and has ended with the draft still pending.
C8_Witness ==
  /\ TurnEnded /\ pending0 # NoPending
  /\ text = <<"weather", "in", "tokyo">>
  /\ task.type = "WEATHER" /\ task.details.query = "tokyo"
  /\ ret = StrResult("Weather in")
  /\ pending = pending0

\* C9: for every non-empty query a failure inside the cascade never ends it:
\* real_time_search returns an error result only after the web-search
\* fallback has been attempted.
C9_ErrorOnlyAfterFallback ==
  (query # "" /\ rtsRet # NoResult /\ rtsRet.status = "error") => fellBack

\* C11: the real-time subsystem never raises: whatever fails, the web-search
\* fallback with a network-level exception included, real_time_search
\* returns a dict whose status is success, partial or error, an error
\* carrying a message; a direct caller receives that dict.
C11_RealTimeSearchNeverRaises ==
  /\ rtsRet # NoResult =>
        /\ rtsRet.shape = "dict"
        /\ rtsRet.status \in {"success", "partial", "error"}
        /\ rtsRet.status = "error" => rtsRet.msg # Absent
  /\ (entry = "real_time_search" /\ pc = "done") =>
        /\ outcome = "returned"
        /\ ret = rtsRet
        /\ rtsRet # NoResult

\* A direct call has gone through the classification to the web-search
\* fallback, whose HTTP request raised, and has returned the error dict.
C11_Witness ==
  /\ entry = "real_time_search" /\ pc = "done" /\ query # ""
  /\ fellBack
  /\ ret = error_response("Could not retrieve information")

\* The real-time query of the operation in flight is empty
RealTimeQueryEmpty ==
  \/ entry = "real_time_search" /\ query = ""
  \/ /\ entry \in {"handle_task", "message_handler"}
     /\ task.type = "REALTIME"
     /\ Get(task.details, "query") = ""

\* C12: an empty real-time query goes directly to the terminal error: no
\* call of the classification service and no web search is issued for it.
C12_EmptyQueryShortCircuits ==
  RealTimeQueryEmpty =>
    /\ pc \notin {"rts_gemini", "rts_fallback"}
    /\ resp = NoResp
    /\ ~ fellBack

\* The time at which the time result v was made
Stamp(v) == CHOOSE t \in 0..(MaxNow + 1) : ToString(t) = v.data

\* The step by which get_current_time looks its key up in the cache
Lookup == pc = "idle" /\ entry' = "get_current_time"

\* The entries that the cache holds for the key of location l
StoredFor(l) == { cache[i] : i \in { j \in 1..Len(cache) : cache[j].key = cache_key(l) } }

\* C13: cache round trip: a lookup of a key whose entry was put less than
\* TTL ago (and has not been evicted) returns the value that was put; a
\* lookup made once TTL has elapsed since the put, or of a key without an
\* entry, is a miss.  The time of a lookup is that of its read of the entry.
C13_CacheRoundTrip ==
  [][ Lookup =>
        /\ \A e \in StoredFor(query') :
              now' < Stamp(e.val) + TTL => hit' /\ ret' = e.val
        /\ \A e \in StoredFor(query') :
              now' >= Stamp(e.val) + TTL => ~ hit'
        /\ StoredFor(query') = {} => ~ hit' ]_vars

\* A lookup has been answered from the cache at the last tick before the
\* expiry of the entry.
C13_Witness ==
  /\ entry = "get_current_time" /\ pc = "done" /\ hit
  /\ ret.status = "success"
  /\ Stamp(ret) < now
  /\ now = Stamp(ret) + TTL - 1

\* The entries and the keys of a cache
CacheEntries(c) == { c[i] : i \in 1..Len(c) }

CacheKeys(c) == { c[i].key : i \in 1..Len(c) }

\* C14: the cache never holds more than MAXSIZE entries, and an entry that
\* leaves it before its expiry (an eviction) is the oldest-inserted one,
\* whatever its remaining time to live and however recently it was read.
C14_EvictsOldestInserted ==
  [][ /\ Len(cache') <= MAXSIZE
      /\ \A e \in CacheEntries(cache) :
            (e.key \notin CacheKeys(cache') /\ now < e.expires) =>
              \A f \in CacheEntries(cache) : Stamp(e.val) <= Stamp(f.val) ]_vars

\* C15: when the normalized key of a query has an unexpired entry, the
\* lookup returns that entry at once, with no resolution and no external
\* call, and the source of the returned result marks it as coming from the
\* cache (it is not the source of a fresh resolution).
C15_HitReturnsTaggedEntry ==
  (entry = "get_current_time" /\ hit) =>
    /\ pc = "done"
    /\ ret.status = "success"
    /\ ret.source \notin {"timezone_db", "timeapi.io"}

\* C16: every successful resolution, by the direct timezone mapping or by
\* the external API, has stored its result in the cache under the key of
\* the query, with the time to live counted from the resolution, when
\* get_current_time returns.
C16_SuccessIsCached ==
  (entry = "get_current_time" /\ pc = "done" /\ ~ hit /\ ret.status = "success") =>
    \E e \in CacheEntries(cache) :
      /\ e.key = cache_key(query)
      /\ e.val = ret
      /\ e.expires = Stamp(ret) + TTL

\* The keyword groups of TaskRouter.classify_request (opencode/agent.py) in
\* the order of their declaration, and those of which a keyword occurs in
\* the lower-cased utterance u
DeclaredGroups ==
  << "WEATHER", "EMAIL", "WEBSEARCH", "WEBSCRAPE", "TODO", "REALTIME" >>

GroupKeywords(name) ==
  CASE name = "WEATHER"   -> {<<"weather">>, <<"temperature">>, <<"forecast">>}
    [] name = "EMAIL"     -> {<<"email">>, <<"send", "mail">>, <<"compose">>}
    [] name = "WEBSEARCH" -> {<<"search">>, <<"lookup">>, <<"find", "information">>}
    [] name = "WEBSCRAPE" -> {<<"scrape">>, <<"extract">>, <<"analyze", "url">>}
    [] name = "TODO"      -> {<<"todo">>, <<"task">>, <<"reminder">>}
    [] name = "REALTIME"  -> {<<"realtime">>, <<"current">>, <<"now">>}

Occurs(kw, u) ==
  IF Len(kw) = 1 THEN HasKeyword(LowerText(u), kw[1])
  ELSE HasTwoWordKeyword(LowerText(u), kw)

MatchingGroups(u) ==
  { i \in 1..Len(DeclaredGroups) : \E kw \in GroupKeywords(DeclaredGroups[i]) : Occurs(kw, u) }

FirstGroup(u) ==
  IF MatchingGroups(u) = {} THEN "CONVERSATION"
  ELSE DeclaredGroups[SetMin(MatchingGroups(u))]

\* The same for the if/elif chain of TaskRouter.classify_request (tasks.py):
\* "search" (WEBSEARCH with "web", else REALTIME), "email", "todo", "weather"
TasksFirstGroup(u) ==
  CASE Occurs(<<"search">>, u)  -> IF Occurs(<<"web">>, u) THEN "WEBSEARCH" ELSE "REALTIME"
    [] Occurs(<<"email">>, u)   -> "EMAIL"
    [] Occurs(<<"todo">>, u)    -> "TODO"
    [] Occurs(<<"weather">>, u) -> "WEATHER"
    [] OTHER                    -> "CONVERSATION"

\* C17: classify_request returns the category of the first keyword group,
\* in the order of declaration, of which a keyword occurs in the lower-cased
\* utterance, whatever later groups match, and CONVERSATION exactly when no
\* group matches.
C17_FirstMatchingGroupWins ==
  /\ (entry = "message_handler" /\ classified) =>
        /\ task.type = FirstGroup(text)
        /\ task.type = "CONVERSATION" <=> MatchingGroups(text) = {}
  /\ entry = "analyze_prompt_and_route_task" => task.type = TasksFirstGroup(text)

\* An utterance in which a keyword of WEBSEARCH comes before one of WEATHER
\* has been classified: WEATHER, the group declared first.
C17_Witness ==
  /\ entry = "message_handler" /\ classified
  /\ text = <<"search", "weather", "in", "tokyo">>
  /\ MatchingGroups(text) = {1, 3}
  /\ task.type = "WEATHER"

\* The rule-based classifiers: classify_request of opencode/agent.py, of
\* tasks.py and of works.py
ClassifierEntries ==
  {"message_handler", "analyze_prompt_and_route_task", "works.classify_request"}

\* The classifier of the operation was called and has ended
ClassifierEnded ==
  /\ entry \in ClassifierEntries
  /\ classified \/ (entry = "works.classify_request" /\ pc = "done")

\* C18: for every utterance, each rule-based classifier returns, without
\* raising, a Task whose category is not empty, and the category is
\* "conversation" when no keyword group matches.
C18_ClassifierAlwaysReturnsTask ==
  ClassifierEnded =>
    /\ classified
    /\ task.type # Absent
    /\ (entry = "message_handler" /\ MatchingGroups(text) = {}) => task.type = "CONVERSATION"
    /\ (entry # "message_handler" /\ TasksFirstGroup(text) = "CONVERSATION")
         => task.type = "CONVERSATION"

\* The positions in utterance u of a preposition that opens a location
\* phrase, and the location named after the first of them, as uttered
LocationStarts(u) ==
  { i \in 1..(Len(u) - 1) : Lower(u[i]) \in {"in", "at", "for"} }

LocationOf(u) == JoinFrom(u, SetMin(LocationStarts(u)) + 1)

\* C19: an utterance with a weather keyword (weather, temperature, forecast)
\* and a location phrase is classified WEATHER, and details.query is the
\* location as it stands in the utterance ("weather in Tokyo" gives "Tokyo").
C19_WeatherQueryIsLocation ==
  ( /\ entry = "message_handler" /\ classified
    /\ \E kw \in GroupKeywords("WEATHER") : Occurs(kw, text)
    /\ LocationStarts(text) # {} ) =>
      /\ task.type = "WEATHER"
      /\ Get(task.details, "query") = LocationOf(text)

\* The recipient address that the context pattern of the EMAIL group finds
\* in utterance u, "" when it finds none
RecipientIn(u) ==
  LET ws     == LowerText(u)
      starts == ContextStarts("EMAIL", ws)
  IN  IF starts = {} THEN "" ELSE ContextGroup("EMAIL", ws, SetMin(starts))

\* message_handler classifies an utterance as EMAIL in this step, and the
\* utterance holds a recipient address
ClassifiesEmailWithRecipient ==
  /\ pc = "idle"
  /\ entry' = "message_handler"
  /\ classified'
  /\ task'.type = "EMAIL"
  /\ RecipientIn(text') # ""

\* C20: for every utterance classified as EMAIL that contains a recipient
\* address matching the address pattern, the details of the Task contain the
\* address and the e-mail handler takes it as the recipient: it goes on to
\* generate the draft, and the message it drafts is addressed to it.
C20_RecipientReachesDraft ==
  [][ /\ ClassifiesEmailWithRecipient =>
         /\ \E key \in {"query", "to", "content", "city"} :
              task'.details[key] = RecipientIn(text')
         /\ pc' = "em_content"
      /\ (entry = "message_handler" /\ task.type = "EMAIL" /\ Len(sent') > Len(sent)) =>
           sent'[Len(sent')].to = RecipientIn(text) ]_vars

\* What the extraction pattern of group `name` yields for utterance u:
\* NoDetails when it finds nothing
OwnExtraction(name, u) ==
  LET ws     == LowerText(u)
      starts == IF name = "CONVERSATION" THEN {} ELSE ContextStarts(name, ws)
  IN  IF starts = {} THEN NoDetails
      ELSE Details(ContextGroup(name, ws, SetMin(starts)), Absent, Absent)

\* The classifier of tasks.py has classified an utterance that holds
\* "weather" without "weather in"
TasksWeatherWithoutCity ==
  /\ entry = "analyze_prompt_and_route_task"
  /\ task.type = "WEATHER"
  /\ ~ HasTwoWordKeyword(LowerText(text), <<"weather", "in">>)

\* C21 as stated: when the keyword of a group matches and its extraction
\* pattern does not, classify_request (opencode/agent.py and tasks.py)
\* returns the category of the group with empty details.
C21_NoExtractionEmptyDetails_AsStated ==
  /\ (entry = "message_handler" /\ classified /\ OwnExtraction(task.type, text) = NoDetails)
        => task.details = NoDetails
  /\ TasksWeatherWithoutCity => task.details = NoDetails

\* C21: when the keyword of a group matches and its extraction pattern
\* does not, classify_request of opencode/agent.py returns the category of
\* the group with empty details, and the details it returns are never the
\* extraction of another group's pattern; classify_request of tasks.py
\* returns for the weather group details that hold an empty city.
C21_NoExtractionNoValue ==
  /\ (entry = "message_handler" /\ classified) =>
        /\ task.type = FirstGroup(text)
        /\ task.details = OwnExtraction(task.type, text)
  /\ TasksWeatherWithoutCity => task.details = CityDetails("")
  /\ (entry = "analyze_prompt_and_route_task" /\ task.type \in {"EMAIL", "REALTIME", "CONVERSATION"})
        => task.details = NoDetails

\* A group other than WEBSEARCH matched, its own pattern found nothing and
\* the pattern of WEBSEARCH would have found a location
C21_Witness ==
  /\ entry = "message_handler" /\ classified
  /\ text = <<"forecast", "for", "tokyo">>
  /\ task.type = "WEATHER"
  /\ ContextStarts("WEBSEARCH", LowerText(text)) # {}
  /\ task.details = NoDetails

\* The registries of handlers of the two routers that take a category:
\* self.task_handlers (opencode/agent.py), self.task_functions
\* (run_voice_assistant.py)
Registry(e) == IF e = "TaskHandler.handle_task" THEN task_functions ELSE task_handlers

\* C22: when the category of a task has no entry in the registry of
\* handlers, the router calls the conversation handler for it; it does not
\* end without calling a handler, and it does not return an error.
C22_UnknownCategoryGetsDefaultHandler ==
  ( /\ entry \in {"handle_task", "TaskHandler.handle_task"}
    /\ task.type \notin Registry(entry) ) =>
      /\ invoked = "CONVERSATION"
      /\ pc = "done" => ~ IsErrorResult(ret)

\* C23: every result that the router returns, for every category and on
\* every path (success, handler failure, timeout, unknown category), is a
\* HandlerResult whose status is success, partial or error; the status is
\* never empty or absent.
C23_RouterResultHasStatus ==
  (entry \in {"handle_task", "analyze_prompt_and_route_task"} /\ pc = "done") =>
    /\ ret.shape = "dict"
    /\ ret.status \in {"success", "partial", "error"}

\* Invocation h of message_handler takes the step
Acting(h) == handlings'[h] # handlings[h]

\* C24: with two or more conversations active, handling an utterance of one
\* conversation never reads, creates, modifies or destroys the pending
\* e-mail of another conversation, and each conversation holds at most one
\* pending e-mail (the one value under the key "pending_email" of its
\* agent's context).
C24_PendingIsPerConversation ==
  [][ /\ DOMAIN context' = Conversations
      /\ \A h \in Slots : Acting(h) =>
           LET c == handlings'[h].conv
           IN  /\ \A d \in Conversations \ {c} : context'[d] = context[d]
               /\ handlings[h].pc = "free" =>
                    /\ handlings'[h].branch = Branch(context[c], handlings'[h].text)
                    /\ handlings'[h].email_data \in {NoPending, context[c]} ]_vars

\* Conversation "b" has confirmed and destroyed its pending e-mail while an
\* invocation of conversation "a", whose draft is untouched, is in flight
C24_Witness ==
  /\ sentOk["b"] = 1
  /\ context["b"] = NoPending
  /\ context["a"] \in Drafts
  /\ \E h \in Slots : handlings[h].conv = "a" /\ handlings[h].pc = "gen_subject"

\* Invocation h of message_handler is suspended at an await
InFlight(h) == handlings[h].pc \notin {"free", "ended", "raised"}

\* C25: within one conversation the utterances take effect on the
\* confirmation state machine strictly in the order of their arrival: the
\* handling of a later utterance observes the pending e-mail as the complete
\* handling of the utterance before it left it, never a state of a handling
\* that is still suspended at an external call.  The handling of an
\* utterance reads the pending e-mail when it begins, so no handling begins
\* while an earlier one of its conversation is suspended.
C25_HandledInArrivalOrder ==
  \A g, h \in Slots :
    ( /\ g < h
      /\ handlings[g].conv = handlings[h].conv
      /\ handlings[g].branch \in {"confirm", "cancel", "edit"}
      /\ handlings[h].pc # "free" )
      => ~ InFlight(g)

\* C30: a pending e-mail is sent at most once, also when two utterances
\* with "confirm", or a confirm together with a cancel or an edit, are
\* handled concurrently in one conversation, and no handling fails because
\* the pending e-mail was already destroyed.
C30_PendingSentAtMostOnce ==
  /\ \A c \in Conversations : sentOk[c] <= 1
  /\ \A h \in Slots : handlings[h].err # "KeyError"

\* Session y is listening for the wake word: what `if listening_for_wakeword`
\* of its callback finds
ListeningFor(y) == listening_for_wakeword

\* C28: the "currently listening" flag is state of the session: with two
\* sessions, an utterance handled in one session never changes whether the
\* other session listens for the wake word or accepts commands.
C28_ListeningIsPerSession ==
  [][ \A x \in Sessions : sessions'[x] # sessions[x] =>
        \A y \in Sessions \ {x} : ListeningFor(y)' = ListeningFor(y) ]_vars

\* C29: once the handling of a confirm utterance in state PENDING has
\* finished, no pending e-mail remains (state NONE), whether the send
\* reported success, reported failure or raised an exception.
C29_ConfirmAlwaysClears ==
  (TurnEnded /\ TurnInPending /\ Branch(pending0, text) = "confirm") =>
    pending = NoPending

\* C26: when a handler times out, its cancellation stops every nested
\* external call of the task: no work of the timed-out task goes on after
\* the router has returned.
C26_TimeoutStopsNestedCalls ==
  /\ ~ orphan
  /\ (ret = OnTimeout /\ ~ armed) => ~ inThread

\* C27: with entries expiring while a lookup is in progress, a lookup in
\* the cache yields a complete value that was stored under the key, or a
\* miss (and then the fresh resolution); it never turns the request into an
\* error.
C27_LookupNeverFails ==
  (entry = "get_current_time" /\ pc = "done"
     /\ (NormalizeLocation(query) \in country_zones
           \/ NormalizeLocation(query) \in timezone_mappings)) =>
    /\ ret.status = "success"
    /\ hit => \E t \in 0..now : ret = TimeResult("timezone_db", t)

\* C31: on confirm, the message handed to the mail provider has exactly
\* the recipient, the subject and the body that the pending e-mail held at
\* that moment, edits made while it was pending included.
C31_ConfirmSendsPendingPayload ==
  (entry = "message_handler" /\ TurnInPending /\ Branch(pending0, text) = "confirm") =>
    sent = << Message(pending0.to, pending0.subject, pending0.content) >>

\* C32: in state PENDING the signals are tested in the fixed order confirm,
\* cancel, edit and exactly one transition is taken per utterance: an
\* utterance with both "confirm" and "cancel" sends the message, and one
\* with both "cancel" and "edit" discards the pending e-mail without
\* regenerating it.
C32_SignalsInFixedOrder ==
  LET Said(t) == \E i \in 1..Len(said) : said[i] = t
  IN
  (TurnEnded /\ TurnInPending) =>
    /\ HasConfirm(text) =>
         /\ Len(sent) = 1
         /\ ~ Said("Email cancelled.") /\ ~ Said("Email edited.")
         /\ gen = NoGen /\ ~ classified
    /\ (~ HasConfirm(text) /\ HasCancel(text)) =>
         /\ sent = <<>>
         /\ pending = NoPending
         /\ gen = NoGen /\ ~ Said("Email edited.") /\ ~ classified
    /\ (~ HasConfirm(text) /\ ~ HasCancel(text) /\ HasEdit(text)) =>
         /\ sent = <<>>
         /\ ~ Said("Email cancelled.") /\ ~ classified

\* C33: in generate_response each provider is attempted at most
\* max_retries + 1 times per call, and a call in which every attempt of
\* both providers fails returns the apology text.
C33_AttemptsBoundedByRetries ==
  /\ \A q \in Providers : bot.attempts[q] <= bot.retries + 1
  /\ (bot.pc = "done" /\ bot.failures) => bot.ret = APOLOGY

\* C34: once a provider is marked unavailable, no later step of the same
\* or a subsequent generate_response call sends a request to it.
C34_NoRequestToUnavailableProvider == ~ bot.stale

\* C35: once a non-empty transcript has been collected and more than 1.5 s
\* have passed without new speech, the transcript has been passed to
\* handle_llm_response, the collector reset and the transcription task
\* cancelled, before the next listening session starts.
C35_PauseHandsTranscriptOver ==
  (loop.collected # "" /\ ~ HasExit(loop.collected) /\ loop.quiet > PAUSE_THRESHOLD) =>
    /\ loop.handled = loop.collected
    /\ loop.transcript = "" /\ loop.cancelled

\* C36: in listen_and_route_tasks an utterance is routed to the TaskRouter
\* only while listening_for_wakeword is False; the flag turns False only
\* when the wake word is detected, and turns True again only with the
\* handling of an utterance containing "thank you for your help", which it
\* does also when the routing of that utterance reports an error.
C36_FlagFollowsWakeWordAndThanks ==
  [][ \A x \in Sessions, a \in Audios, o \in {"success", "error", "raise"} :
        Callback(x, a, o) =>
          /\ sessions'[x].routed # sessions[x].routed => ~ listening_for_wakeword
          /\ (listening_for_wakeword /\ ~ listening_for_wakeword') => a = "wake"
          /\ (~ listening_for_wakeword /\ listening_for_wakeword') => a = "thanks"
          /\ (~ listening_for_wakeword /\ a = "thanks" /\ o = "error") =>
               listening_for_wakeword' ]_vars

\* The routing of the closing utterance reported an error and the
\* assistant is waiting for the wake word again
C36_Witness ==
  /\ listening_for_wakeword
  /\ \E x \in Sessions : /\ sessions[x].routed = << "thanks", "error" >>
                         /\ sessions[x].heard = "thanks"

\* C37, as stated: a message is handed to the mail service only after the
\* recipient matched the address pattern, the subject was non-empty and at
\* most 150 characters, the body was non-empty and the user answered 'y';
\* with any other answer nothing is sent.
C37_SentOnlyOnAnswerY_AsStated ==
  mail.handed # <<>> =>
    /\ MatchesEmail(mail.recipient)
    /\ mail.subject # <<>> /\ Len(mail.subject) <= SUBJECT_MAX
    /\ mail.body # <<>>
    /\ mail.answer = <<"y">>

\* C37, amended: a message is handed to the mail service only after the
\* recipient matched the address pattern, the subject was non-empty and at
\* most 150 characters, the body was non-empty and the user's answer,
\* stripped of surrounding blanks and lower-cased, was 'y'; with any other
\* answer or an empty body nothing is sent, and what is handed over is
\* the message made of that recipient, subject and body.
C37_SentOnlyOnConsent ==
  /\ mail.handed # <<>> =>
       /\ MatchesEmail(mail.recipient)
       /\ mail.subject # <<>> /\ Len(mail.subject) <= SUBJECT_MAX
       /\ mail.body # <<>>
       /\ LowerChars(StripChars(mail.answer)) = <<"y">>
       /\ \A k \in 1..Len(mail.handed) :
            mail.handed[k] = Message(mail.recipient, mail.subject, mail.body)
  /\ (mail.pc = "done" /\ mail.body = <<>>) => mail.handed = <<>>

\* The user answered "Y" and the message was handed to the mail service
C37_Witness ==
  /\ mail.handed # <<>>
  /\ mail.answer = <<"Y">>
  /\ Len(mail.subject) = SUBJECT_MAX

\* C38: whenever create_todo returns status error, the todos in memory and
\* in the persisted store are the same as before the call; a todo is added
\* only by calls that return status success.
C38_ErrorLeavesTodosUnchanged ==
  /\ manager.status = "error" =>
       /\ manager.todos = manager.before.todos
       /\ manager.stored = manager.before.stored
  /\ manager.todos # manager.before.todos => manager.status = "success"

\* The structured-classification response has no text or is not JSON
Unparsable(r) == r.shape \in {"notext", "garbage"}

\* It is an object whose type is a supported one, without its required field
LacksRequiredField(r) ==
  /\ r.shape = "object"
  /\ r.type \notin {Absent, NonString}
  /\ TypeLower(r.type) \in RequiredTypes
  /\ ~ (required_fields(TypeLower(r.type)) \subseteq r.fields)

\* It is an object that names a category for which the module has no handler
NamesCategoryWithoutHandler(r) ==
  /\ r.shape = "object"
  /\ r.type \notin {Absent, NonString}
  /\ TypeLower(r.type) \notin {"weather", "time", "news"}

\* C10: when the structured-classification response is unparsable, lacks the
\* required field of its type, or names a category that has no handler,
\* real_time_search goes on to fallback_search and returns its result.
C10_BadClassificationFallsBack ==
  (rtsRet # NoResult /\ resp # NoResp
     /\ (Unparsable(resp) \/ LacksRequiredField(resp) \/ NamesCategoryWithoutHandler(resp))) =>
    /\ fellBack
    /\ \E o \in {"results", "empty", "raise"} : rtsRet = FallbackResult(o)

====
